---------------------------- MODULE Spec2Model ----------------------------
(***************************************************************************)
(* A model of the ray-tracer crate (src/ray-tracer/src).                   *)
(*                                                                         *)
(* Geometry is restricted to the y axis: every ray runs along the axis     *)
(* (direction +1 or -1), planes are the x-z plane translated along y,      *)
(* spheres are unit spheres scaled uniformly and translated along y, and   *)
(* lights sit on the axis.  A point is its y coordinate, a vector is its   *)
(* y component.  Lengths are counted in units of EPSILON, scalars          *)
(* (colour channels, material coefficients, refractive indices) are        *)
(* fixed-point numbers with One standing for 1.0.                          *)
(*                                                                         *)
(* Transformations, bounding boxes, groups and the octree are modelled in  *)
(* space: a point or vector is a triple of whole numbers, a matrix is the  *)
(* tuple of its rows, an inverse is kept as its numerators over the        *)
(* determinant, and the f64 values INFINITY, NEG_INFINITY and NaN are      *)
(* numbers set apart, with the arithmetic and comparisons f64 gives them.  *)
(***************************************************************************)
EXTENDS Integers, Sequences, FiniteSets, TLC

VARIABLES
    call,     \* the operation applied to hand-built arguments, with them
    ret,      \* what that operation returned, Pending before it ran
    world,    \* World { lights, objects }
    stack,    \* the frames of the running World methods, innermost last
    cast,     \* number of reflection and refraction rays constructed so far
    cross,        \* the pixels Camera::render has not handed to a worker yet
    image_mutex,  \* Mutex<Canvas>: the canvas and the worker holding the lock
    workers       \* per worker of the pool, its position in the render closure

vars == <<call, ret, world, stack, cast, cross, image_mutex, workers>>
worldVars == <<world, stack, cast>>
renderVars == <<cross, image_mutex, workers>>

Pending == [pending |-> TRUE]
None == [none |-> TRUE]
Returned(v) == [value |-> v]
Panic == [panic |-> TRUE]

-----------------------------------------------------------------------------
(* Scalars and vectors *)

One == 100
EPSILON == 1
EpsilonInv == 100000

Abs(x) == IF x < 0 THEN -x ELSE x

Mul(a, b) == (a * b) \div One

Div(a, b) == (a * One) \div b

approx_eq(x, other) == Abs(x - other) * EpsilonInv < One

RECURSIVE powi(_, _)
powi(x, n) == IF n = 0 THEN One ELSE Mul(x, powi(x, n - 1))

sqrt(x) == CHOOSE s \in 0..(10 * One) :
              /\ s * s <= x * One
              /\ (s + 1) * (s + 1) > x * One

normalize(v) == IF v > 0 THEN 1 ELSE IF v < 0 THEN -1 ELSE 0

reflect(v, n) == v - (n * 2) * (v * n)


isqrt(x) == CHOOSE s \in 0..x : s * s <= x /\ (s + 1) * (s + 1) > x

last(s) == s[Len(s)]

contains(s, e) == \E i \in 1..Len(s) : s[i] = e

-----------------------------------------------------------------------------
(* Materials, objects, rays *)

\* Material::new()
Material == [ambient |-> 10, diffuse |-> 90, specular |-> 90, color |-> One,
             reflective |-> 0, transparency |-> 0, refractive_index |-> One,
             cast_shadows |-> TRUE, receive_shadows |-> TRUE]

with_reflective(m, x) == [m EXCEPT !.reflective = x]
with_transparency(m, x) == [m EXCEPT !.transparency = x]
with_refractive_index(m, x) == [m EXCEPT !.refractive_index = x]
with_cast_shadows(m, b) == [m EXCEPT !.cast_shadows = b]
with_receive_shadows(m, b) == [m EXCEPT !.receive_shadows = b]

\* ObjectBuilder::build for a primitive; the transform is a uniform scaling
\* followed by a translation along the axis.
Object(shape, translation, scaling, material) ==
    [shape |-> shape, translation |-> translation, scaling |-> scaling,
     material |-> material]

Ray(origin, direction) == [origin |-> origin, direction |-> direction]

Ray_position(r, t) == r.origin + r.direction * t

Intersection(t, object) == [t |-> t, object |-> object]

\* Sphere::intersects on the ray in object space; object-space coordinates
\* are kept multiplied by the scaling so that they stay integral.
Sphere_intersects(object, ray) ==
    LET sphere_to_ray == ray.origin
        a == ray.direction * ray.direction
        b == 2 * ray.direction * sphere_to_ray
        c == sphere_to_ray * sphere_to_ray - object.scaling * object.scaling
        discriminant == b * b - 4 * a * c
    IN  IF discriminant < 0
        THEN <<>>
        ELSE <<Intersection((-b - isqrt(discriminant)) \div (2 * a), object),
               Intersection((-b + isqrt(discriminant)) \div (2 * a), object)>>

Plane_intersects(object, ray) ==
    IF Abs(ray.direction) * EpsilonInv > 1
    THEN <<Intersection((-ray.origin) \div ray.direction, object)>>
    ELSE <<>>

\* Transformation::inverse and inverse_transposed, the cached Option: the
\* transform y -> scaling * y + translation has an inverse unless the
\* scaling, its determinant, is 0.  The inverse is kept as the pair it undoes.
inverse(object) ==
    IF object.scaling = 0
    THEN None
    ELSE [translation |-> object.translation, scaling |-> object.scaling]

\* Object::intersects: the ray goes to object space through
\* inverse().unwrap(), then to the shape.
Object_intersects(object, r) ==
    IF inverse(object) = None
    THEN Panic
    ELSE LET local == Ray(r.origin - inverse(object).translation, r.direction)
         IN  IF object.shape = "Sphere"
             THEN Sphere_intersects(object, local)
             ELSE Plane_intersects(object, local)

\* inverse().unwrap() * point
world_to_object(object, point) ==
    IF inverse(object) = None THEN Panic ELSE point - inverse(object).translation

\* inverse_transposed().unwrap() * normal, normalized
normal_to_world(object, normal) ==
    IF inverse(object) = None THEN Panic ELSE normalize(normal)

\* Object::normal_at; a panic in world_to_object unwinds through it
Object_normal_at(object, world_point) ==
    LET local_point == world_to_object(object, world_point)
        local_normal == IF object.shape = "Sphere" THEN local_point ELSE 1
    IN  IF inverse(object) = None
        THEN local_point
        ELSE normal_to_world(object, local_normal)

-----------------------------------------------------------------------------
(* intersections.rs *)

RECURSIVE min_by(_, _, _)
min_by(s, i, best) ==
    IF i > Len(s) THEN best
    ELSE min_by(s, i + 1, IF best = None \/ s[i].t < best.t THEN s[i] ELSE best)

positive_or_zero(i) == i.t >= 0

positive(i) == i.t > 0

hit(xs) == min_by(SelectSeq(xs, positive), 1, None)

index_of_first(containers) ==
    IF containers = <<>> THEN One
    ELSE containers[1].material.refractive_index

index_of(containers) ==
    IF containers = <<>> THEN One
    ELSE last(containers).material.refractive_index

update(containers, object) ==
    LET other(o) == o # object
    IN  IF contains(containers, object)
        THEN SelectSeq(containers, other)
        ELSE Append(containers, object)

RECURSIVE walk(_, _, _, _, _)
walk(self, xs, i, containers, n1) ==
    IF i > Len(xs) THEN [n1 |-> n1, n2 |-> 0]
    ELSE LET x == xs[i]
             n1x == IF x = self THEN index_of(containers) ELSE n1
             after == update(containers, x.object)
         IN  IF x = self
             THEN [n1 |-> n1x, n2 |-> index_of(after)]
             ELSE walk(self, xs, i + 1, after, n1x)

prepare_computations(self, r, xs) ==
    LET t == self.t
        object == self.object
        point == Ray_position(r, t)
        eye_v == -r.direction
        normal == Object_normal_at(object, point)
        inside == normal * eye_v < 0
        normal_v == IF inside THEN -normal ELSE normal
        n == walk(self, xs, 1, <<>>, 0)
    IN  [t |-> t, object |-> object, point |-> point,
         over_point |-> point + normal_v * EPSILON,
         under_point |-> point - normal_v * EPSILON,
         eye_v |-> eye_v, normal_v |-> normal_v, inside |-> inside,
         reflect_v |-> reflect(r.direction, normal_v),
         n1 |-> n.n1, n2 |-> n.n2]

schlick(comps) ==
    LET cos0 == comps.eye_v * comps.normal_v * One
        n == Div(comps.n1, comps.n2)
        sin2_t == Mul(powi(n, 2), One - powi(cos0, 2))
        r0 == powi(Div(comps.n1 - comps.n2, comps.n1 + comps.n2), 2)
        cos == IF comps.n1 > comps.n2 THEN sqrt(One - sin2_t) ELSE cos0
    IN  IF comps.n1 > comps.n2 /\ sin2_t > One
        THEN One
        ELSE r0 + Mul(One - r0, powi(One - cos, 5))

-----------------------------------------------------------------------------
(* shapes/csg.rs *)

CSGKind == {"Union", "Intersection", "Difference"}

CSG(kind, left, right) == [kind |-> kind, left |-> left, right |-> right]

\* Object::includes: a primitive includes itself, a CSG object what its two
\* children include.
RECURSIVE includes(_, _)
includes(object, other) ==
    IF "csg" \in DOMAIN object
    THEN includes(object.csg.left, other) \/ includes(object.csg.right, other)
    ELSE object = other

intersection_allowed_swapped(self, left_hit, inside_left, inside_right) ==
    CASE self.kind = "Union" ->
            (left_hit /\ ~inside_right) \/ (~left_hit /\ ~inside_left)
      [] self.kind = "Intersection" ->
            (left_hit /\ inside_right) \/ (~left_hit /\ inside_left)
      [] self.kind = "Difference" ->
            (left_hit /\ inside_right) \/ (~left_hit /\ ~inside_left)

intersection_allowed(self, left_hit, inside_left, inside_right) ==
    CASE self.kind = "Union" ->
            (left_hit /\ ~inside_right) \/ (~left_hit /\ ~inside_left)
      [] self.kind = "Intersection" ->
            (left_hit /\ inside_right) \/ (~left_hit /\ inside_left)
      [] self.kind = "Difference" ->
            (left_hit /\ ~inside_right) \/ (~left_hit /\ inside_left)

RECURSIVE fold_toggle_other(_, _, _, _, _, _)
fold_toggle_other(self, xs, k, inside_left, inside_right, acc) ==
    IF k > Len(xs) THEN acc
    ELSE LET i == xs[k]
             left_hit == includes(self.left, i.object)
             kept == IF intersection_allowed(self, left_hit, inside_left, inside_right)
                     THEN Append(acc, i) ELSE acc
         IN  fold_toggle_other(self, xs, k + 1,
                               IF left_hit THEN inside_left ELSE ~inside_left,
                               IF left_hit THEN ~inside_right ELSE inside_right,
                               kept)

RECURSIVE fold(_, _, _, _, _, _)
fold(self, xs, k, inside_left, inside_right, acc) ==
    IF k > Len(xs) THEN acc
    ELSE LET i == xs[k]
             left_hit == includes(self.left, i.object)
             kept == IF intersection_allowed(self, left_hit, inside_left, inside_right)
                     THEN Append(acc, i) ELSE acc
         IN  fold(self, xs, k + 1,
                  IF left_hit THEN ~inside_left ELSE inside_left,
                  IF left_hit THEN inside_right ELSE ~inside_right,
                  kept)

filter_intersections(self, xs) == fold(self, xs, 1, FALSE, FALSE, <<>>)

-----------------------------------------------------------------------------
(* materials.rs, world.rs *)

black == 0

PointLight(position, intensity) == [position |-> position, intensity |-> intensity]

lighting(m, light, position, eye, normal, in_shadow) ==
    LET effective_color == Mul(m.color, light.intensity)
        ambient == Mul(effective_color, m.ambient)
        light_vector == normalize(light.position - position)
        light_dot_normal == light_vector * normal
        reflect_vector == -light_vector - normal * 2 * (-(light_vector * normal))
        reflect_dot_eye == reflect_vector * eye
        diffuse == IF in_shadow \/ light_dot_normal < 0 THEN black
                   ELSE Mul(Mul(effective_color, m.diffuse), light_dot_normal * One)
        specular == IF in_shadow \/ light_dot_normal < 0 \/ reflect_dot_eye <= 0
                    THEN black
                    ELSE Mul(Mul(light.intensity, m.specular), reflect_dot_eye * One)
    IN  ambient + diffuse + specular

\* slice::sort_by, a stable sort, on t
RECURSIVE sort_by(_)
sort_by(xs) ==
    IF xs = <<>> THEN <<>>
    ELSE LET x == last(xs)
             front == sort_by(SubSeq(xs, 1, Len(xs) - 1))
             before(i) == i.t <= x.t
             after(i) == i.t > x.t
         IN  SelectSeq(front, before) \o <<x>> \o SelectSeq(front, after)

RECURSIVE push_all(_, _, _)
push_all(objects, k, ray) ==
    IF k > Len(objects) THEN <<>>
    ELSE Object_intersects(objects[k], ray) \o push_all(objects, k + 1, ray)

\* xs is built in full, then sorted
intersect_world(w, ray) ==
    CHOOSE sorted \in {sort_by(xs) : xs \in {push_all(w.objects, 1, ray)}} : TRUE

cast_shadows(i) == i.object.material.cast_shadows

\* one round of the loop of World::is_shadowed
shadowed_from(w, light, p) ==
    LET v == light.position - p
        distance == Abs(v)
        direction == normalize(v)
        shadow_ray == Ray(p, direction)
    IN  \E xs \in {intersect_world(w, shadow_ray)} :
        \E shadowing_xs \in {SelectSeq(xs, cast_shadows)} :
        \E h \in {hit(shadowing_xs)} :
           h # None /\ h.t < distance

is_shadowed(w, p) ==
    \E k \in 1..Len(w.lights) : shadowed_from(w, w.lights[k], p)

ref_sum_plain(material, comps, reflected, refracted) == reflected + refracted

\* the contribution of reflection and refraction in World::shade_hit
ref_sum(material, comps, reflected, refracted) ==
    IF material.reflective > 0 /\ material.transparency > 0
    THEN LET reflectance == schlick(comps)
         IN  Mul(reflected, reflectance) + Mul(refracted, One - reflectance)
    ELSE reflected + refracted

-----------------------------------------------------------------------------
(* The operations of intersections.rs and csg.rs applied to hand-built     *)
(* arguments, as the crate's unit tests apply them.                        *)

MaxLen == 6
MaxAny == 3

\* Three glass spheres on the axis: A contains B and C, B and C overlap.
A == Object("Sphere", 2, 14, with_refractive_index(with_transparency(Material, One), 150))
B == Object("Sphere", -2, 6, with_refractive_index(with_transparency(Material, One), 200))
C == Object("Sphere", 2, 6, with_refractive_index(with_transparency(Material, One), 250))
Spheres == {A, B, C}

Seqs(S, n) == UNION {[1..k -> S] : k \in 0..n}

\* Lists sorted by t with strictly increasing t: the k-th entry has t = 4k - 2.
SortedLists == {[k \in 1..Len(os) |-> Intersection(4 * k - 2, os[k])] :
                   os \in Seqs(Spheres, MaxLen)}

\* Lists in any order, with negative, zero and repeated t.
AnyLists == Seqs({Intersection(t, o) : t \in {-2, 0, 2, 6}, o \in Spheres}, MaxAny)

IsSorted(xs) == \A i \in 1..(Len(xs) - 1) : xs[i].t <= xs[i + 1].t

CSGs == {CSG(kind, A, B) : kind \in CSGKind}

WorldIdle ==
    /\ world = [lights |-> <<>>, objects |-> <<>>]
    /\ stack = <<>>
    /\ cast = 0

\* No render is running: nothing to hand out, no canvas, no pool.
RenderIdle ==
    /\ cross = <<>>
    /\ image_mutex = None
    /\ workers = <<>>

InitPure ==
    /\ \/ \E c \in CSGs, l \in BOOLEAN, il \in BOOLEAN, ir \in BOOLEAN :
             call = [op |-> "intersection_allowed", self |-> c, left_hit |-> l,
                     inside_left |-> il, inside_right |-> ir]
       \/ \E c \in CSGs, xs \in SortedLists :
             call = [op |-> "filter_intersections", self |-> c, xs |-> xs]
       \/ \E xs \in AnyLists :
             call = [op |-> "hit", xs |-> xs]
       \/ \E xs \in SortedLists \cup {l \in AnyLists : IsSorted(l)} :
             \E k \in 1..Len(xs) :
                call = [op |-> "prepare_computations", self |-> xs[k],
                        r |-> Ray(-14, 1), xs |-> xs]
    /\ ret = Pending
    /\ WorldIdle
    /\ RenderIdle

IntersectionAllowed ==
    /\ call.op = "intersection_allowed"
    /\ ret = Pending
    /\ ret' = Returned(intersection_allowed(call.self, call.left_hit,
                                            call.inside_left, call.inside_right))
    /\ UNCHANGED call

FilterIntersections ==
    /\ call.op = "filter_intersections"
    /\ ret = Pending
    /\ ret' = Returned(filter_intersections(call.self, call.xs))
    /\ UNCHANGED call

Hit ==
    /\ call.op = "hit"
    /\ ret = Pending
    /\ ret' = Returned(hit(call.xs))
    /\ UNCHANGED call

PrepareComputations ==
    /\ call.op = "prepare_computations"
    /\ ret = Pending
    /\ ret' = Returned(prepare_computations(call.self, call.r, call.xs))
    /\ UNCHANGED call

NextPure ==
    \/ IntersectionAllowed /\ UNCHANGED <<worldVars, renderVars>>
    \/ FilterIntersections /\ UNCHANGED <<worldVars, renderVars>>
    \/ Hit /\ UNCHANGED <<worldVars, renderVars>>
    \/ PrepareComputations /\ UNCHANGED <<worldVars, renderVars>>

SpecPure == InitPure /\ [][NextPure]_vars

Done(op) == call.op = op /\ ret # Pending

-----------------------------------------------------------------------------
(* Claims about csg.rs and intersections.rs, checked under SpecPure *)

\* The rows <<kind, left_hit, inside_left, inside_right>> of the truth table
\* for which an intersection is kept.
KeepRows ==
    {<<"Union", TRUE, TRUE, FALSE>>, <<"Union", TRUE, FALSE, FALSE>>,
     <<"Union", FALSE, FALSE, TRUE>>, <<"Union", FALSE, FALSE, FALSE>>,
     <<"Intersection", TRUE, TRUE, TRUE>>, <<"Intersection", TRUE, FALSE, TRUE>>,
     <<"Intersection", FALSE, TRUE, TRUE>>, <<"Intersection", FALSE, TRUE, FALSE>>,
     <<"Difference", TRUE, TRUE, FALSE>>, <<"Difference", TRUE, FALSE, FALSE>>,
     <<"Difference", FALSE, TRUE, TRUE>>, <<"Difference", FALSE, TRUE, FALSE>>}

\* C3: for each of the 24 combinations of kind and (left_hit, inside_left,
\* inside_right), CSG::intersection_allowed returns true exactly on the rows
\* of the documented truth table.
C3_TruthTable ==
    Done("intersection_allowed") =>
        (ret.value <=> <<call.self.kind, call.left_hit, call.inside_left,
                         call.inside_right>> \in KeepRows)

C3_Witness ==
    /\ Done("intersection_allowed")
    /\ call.self.kind = "Difference"
    /\ ~call.left_hit /\ call.inside_left /\ ~call.inside_right
    /\ ret.value = TRUE

\* Number of entries before position k that belong (side = TRUE) or do not
\* belong (side = FALSE) to the left subtree.
HitsBefore(self, xs, k, side) ==
    Cardinality({j \in 1..(k - 1) : (xs[j].object = self.left) = side})

Odd(n) == n % 2 = 1

\* Positions of xs that the sweep has to keep: the rule applied to the flags
\* as they stand after the toggles of all earlier entries only.
KeptPositions(self, xs) ==
    {k \in 1..Len(xs) :
        <<self.kind, xs[k].object = self.left,
          Odd(HitsBefore(self, xs, k, TRUE)),
          Odd(HitsBefore(self, xs, k, FALSE))>> \in KeepRows}

RECURSIVE Pick(_, _, _)
Pick(xs, K, k) ==
    IF k > Len(xs) THEN <<>>
    ELSE IF k \in K THEN <<xs[k]>> \o Pick(xs, K, k + 1)
    ELSE Pick(xs, K, k + 1)

\* Four hits owned alternately by the left and the right child.
Alternating == [k \in 1..4 |-> Intersection(4 * k - 2, IF Odd(k) THEN A ELSE B)]

\* C4: filter_intersections sweeps the list in order from inside_left =
\* inside_right = false, decides each entry on the flags as they stand before
\* it and toggles afterwards; of four alternating hits Union keeps the first
\* and fourth, Intersection the second and third, Difference the first two.
C4_Sweep ==
    Done("filter_intersections") =>
        /\ ret.value = Pick(call.xs, KeptPositions(call.self, call.xs), 1)
        /\ call.xs = Alternating =>
              ret.value = CASE call.self.kind = "Union" -> <<call.xs[1], call.xs[4]>>
                            [] call.self.kind = "Intersection" -> <<call.xs[2], call.xs[3]>>
                            [] call.self.kind = "Difference" -> <<call.xs[1], call.xs[2]>>

C4_Witness ==
    /\ Done("filter_intersections")
    /\ call.xs = Alternating
    /\ call.self.kind = "Difference"
    /\ ret.value = <<Alternating[1], Alternating[2]>>

\* C5: hit returns an entry whose t is the minimum over the entries with
\* t > 0, whatever the order of the list, and none exactly when no entry has
\* t > 0; an entry with t <= 0 is never returned.
C5_Hit ==
    Done("hit") =>
        LET pos == {i \in 1..Len(call.xs) : call.xs[i].t > 0}
        IN  /\ (ret.value = None) <=> (pos = {})
            /\ pos # {} =>
                  /\ \E i \in pos : ret.value = call.xs[i]
                  /\ \A i \in pos : ret.value.t <= call.xs[i].t

C5_Witness ==
    /\ Done("hit")
    /\ Len(call.xs) = 3
    /\ call.xs[1].t = 6 /\ call.xs[2].t = 0 /\ call.xs[3].t = 2
    /\ ret.value = call.xs[3]

\* The objects entered and not yet left over the first k entries of xs, and
\* among them the one entered last.
Entered(xs, k) ==
    {o \in {xs[j].object : j \in 1..k} :
        Odd(Cardinality({j \in 1..k : xs[j].object = o}))}

LastEntry(xs, k, o) == CHOOSE j \in 1..k :
    xs[j].object = o /\ \A i \in (j + 1)..k : xs[i].object # o

IndexAfter(xs, k) ==
    IF Entered(xs, k) = {} THEN One
    ELSE (CHOOSE o \in Entered(xs, k) :
            \A p \in Entered(xs, k) : LastEntry(xs, k, p) <= LastEntry(xs, k, o)
         ).material.refractive_index

\* The hits of a ray through A, which contains the overlapping B and C.
Nested == [k \in 1..6 |-> Intersection(4 * k - 2, <<A, B, C, B, C, A>>[k])]
NestedPairs == <<<<100, 150>>, <<150, 200>>, <<200, 250>>, <<250, 250>>,
                 <<250, 150>>, <<150, 100>>>>

\* C6: for a t-sorted list containing the hit, n1 is the refractive index of
\* the object entered last before the hit's entry is processed and n2 that
\* of the object entered last after it (1.0 when none is entered); entries
\* after the hit play no part.  For A, B, C, B, C, A with indices 1.5, 2.0,
\* 2.5 the pairs are (1,1.5) (1.5,2) (2,2.5) (2.5,2.5) (2.5,1.5) (1.5,1).
C6_Indices ==
    Done("prepare_computations") =>
        LET xs == call.xs
            k == CHOOSE j \in 1..Len(xs) :
                    xs[j] = call.self /\ \A i \in 1..(j - 1) : xs[i] # call.self
        IN  /\ ret.value.n1 = IndexAfter(xs, k - 1)
            /\ ret.value.n2 = IndexAfter(xs, k)
            /\ xs = Nested => <<ret.value.n1, ret.value.n2>> = NestedPairs[k]

C6_Witness ==
    /\ Done("prepare_computations")
    /\ call.xs = Nested
    /\ call.self = Nested[4]
    /\ ret.value.n1 = 250 /\ ret.value.n2 = 250

-----------------------------------------------------------------------------
(* World::color_at and the methods it calls, one frame per running call *)

MaxRemaining == 2
MaxLights == 2

ColorAtFrame(r, remaining) ==
    [fn |-> "color_at", pc |-> "start", r |-> r, remaining |-> remaining,
     got |-> black]

ShadeHitFrame(comps, remaining) ==
    [fn |-> "shade_hit", pc |-> "light", comps |-> comps, remaining |-> remaining,
     light |-> 1, in_shadow |-> FALSE, surface |-> black, reflected |-> black,
     refracted |-> black, ref_sum |-> black, sum |-> black]

ReflectedColorFrame(comps, remaining) ==
    [fn |-> "reflected_color", pc |-> "start", comps |-> comps,
     remaining |-> remaining, got |-> black]

RefractedColorFrame(comps, remaining) ==
    [fn |-> "refracted_color", pc |-> "start", comps |-> comps,
     remaining |-> remaining, got |-> black]

IsShadowedFrame(p) == [fn |-> "is_shadowed", pc |-> "start", p |-> p]

top == stack[Len(stack)]

Running(fn, pc) == stack # <<>> /\ top.fn = fn /\ top.pc = pc

\* the caller takes the value its callee returned and goes on
Resume(frame, v) ==
    CASE frame.fn = "color_at" -> [frame EXCEPT !.got = v, !.pc = "return"]
      [] frame.fn = "shade_hit" /\ frame.pc = "reflected" ->
            [frame EXCEPT !.reflected = v, !.pc = "refract"]
      [] frame.fn = "shade_hit" /\ frame.pc = "refracted" ->
            [frame EXCEPT !.refracted = v, !.pc = "add"]
      [] frame.fn \in {"reflected_color", "refracted_color"} ->
            [frame EXCEPT !.got = v, !.pc = "scale"]

Return(v) ==
    LET callers == SubSeq(stack, 1, Len(stack) - 1)
    IN  IF callers = <<>>
        THEN stack' = <<>> /\ ret' = Returned(v)
        ELSE /\ stack' = [callers EXCEPT ![Len(callers)] = Resume(@, v)]
             /\ UNCHANGED ret

Call(pc, frame) ==
    /\ stack' = Append([stack EXCEPT ![Len(stack)].pc = pc], frame)
    /\ UNCHANGED ret

\* color_at up to the call of shade_hit
ColorAt ==
    /\ Running("color_at", "start")
    /\ \E xs \in {intersect_world(world, top.r)} :
       \E h \in {hit(xs)} :
          IF h = None
          THEN Return(black)
          ELSE \E comps \in {prepare_computations(h, top.r, xs)} :
                  Call("shade_hit", ShadeHitFrame(comps, top.remaining))
    /\ UNCHANGED <<call, world, cast>>

ColorAtReturn ==
    /\ Running("color_at", "return")
    /\ Return(top.got)
    /\ UNCHANGED <<call, world, cast>>

\* the closure of shade_hit for one light, up to the call of reflected_color
ShadeHitLight ==
    /\ Running("shade_hit", "light")
    /\ top.light <= Len(world.lights)
    /\ \E comps \in {top.comps} :
       \E material \in {comps.object.material} :
       \E in_shadow \in {material.receive_shadows
                             /\ is_shadowed(world, comps.over_point)} :
       \E surface \in {lighting(material, world.lights[top.light], comps.over_point,
                                 comps.eye_v, comps.normal_v, in_shadow)} :
           /\ stack' = Append([stack EXCEPT ![Len(stack)].in_shadow = in_shadow,
                                             ![Len(stack)].surface = surface,
                                             ![Len(stack)].pc = "reflected"],
                              ReflectedColorFrame(comps, top.remaining))
           /\ UNCHANGED ret
    /\ UNCHANGED <<call, world, cast>>

ShadeHitRefract ==
    /\ Running("shade_hit", "refract")
    /\ Call("refracted", RefractedColorFrame(top.comps, top.remaining))
    /\ UNCHANGED <<call, world, cast>>

\* the end of the closure: ref_sum, and surface + ref_sum goes into the sum
ShadeHitAdd ==
    /\ Running("shade_hit", "add")
    /\ LET rs == ref_sum(top.comps.object.material, top.comps, top.reflected,
                         top.refracted)
       IN  stack' = [stack EXCEPT ![Len(stack)].ref_sum = rs,
                                  ![Len(stack)].sum = @ + (top.surface + rs),
                                  ![Len(stack)].light = @ + 1,
                                  ![Len(stack)].pc = "light"]
    /\ UNCHANGED <<call, ret, world, cast>>

ShadeHitSum ==
    /\ Running("shade_hit", "light")
    /\ top.light > Len(world.lights)
    /\ Return(top.sum)
    /\ UNCHANGED <<call, world, cast>>

ReflectedColor_same_budget ==
    /\ Running("reflected_color", "start")
    /\ LET comps == top.comps
       IN  IF approx_eq(comps.object.material.reflective, 0) \/ top.remaining = 0
           THEN Return(black) /\ UNCHANGED cast
           ELSE /\ Call("color_at",
                        ColorAtFrame(Ray(comps.over_point, comps.reflect_v),
                                     top.remaining))
                /\ cast' = cast + 1
    /\ UNCHANGED <<call, world>>

ReflectedColor ==
    /\ Running("reflected_color", "start")
    /\ LET comps == top.comps
       IN  IF approx_eq(comps.object.material.reflective, 0) \/ top.remaining = 0
           THEN Return(black) /\ UNCHANGED cast
           ELSE /\ Call("color_at",
                        ColorAtFrame(Ray(comps.over_point, comps.reflect_v),
                                     top.remaining - 1))
                /\ cast' = cast + 1
    /\ UNCHANGED <<call, world>>

ReflectedColorScale ==
    /\ Running("reflected_color", "scale")
    /\ Return(Mul(top.got, top.comps.object.material.reflective))
    /\ UNCHANGED <<call, world, cast>>

RefractedColor_past_zero ==
    /\ Running("refracted_color", "start")
    /\ LET comps == top.comps
           n_ratio == Div(comps.n1, comps.n2)
           cos_i == comps.eye_v * comps.normal_v * One
           sin2_t == Mul(Mul(n_ratio, n_ratio), One - Mul(cos_i, cos_i))
           cos_t == sqrt(One - sin2_t)
           direction == (comps.normal_v * (Mul(n_ratio, cos_i) - cos_t)
                           - comps.eye_v * n_ratio) \div One
       IN  IF approx_eq(comps.object.material.transparency, 0)
           THEN Return(black) /\ UNCHANGED cast
           ELSE IF sin2_t > One
           THEN Return(black) /\ UNCHANGED cast
           ELSE /\ Call("color_at",
                        ColorAtFrame(Ray(comps.under_point, direction),
                                     top.remaining - 1))
                /\ cast' = cast + 1
    /\ UNCHANGED <<call, world>>

RefractedColor ==
    /\ Running("refracted_color", "start")
    /\ LET comps == top.comps
           n_ratio == Div(comps.n1, comps.n2)
           cos_i == comps.eye_v * comps.normal_v * One
           sin2_t == Mul(Mul(n_ratio, n_ratio), One - Mul(cos_i, cos_i))
           cos_t == sqrt(One - sin2_t)
           direction == (comps.normal_v * (Mul(n_ratio, cos_i) - cos_t)
                           - comps.eye_v * n_ratio) \div One
       IN  IF approx_eq(comps.object.material.transparency, 0) \/ top.remaining = 0
           THEN Return(black) /\ UNCHANGED cast
           ELSE IF sin2_t > One
           THEN Return(black) /\ UNCHANGED cast
           ELSE /\ Call("color_at",
                        ColorAtFrame(Ray(comps.under_point, direction),
                                     top.remaining - 1))
                /\ cast' = cast + 1
    /\ UNCHANGED <<call, world>>

RefractedColorScale ==
    /\ Running("refracted_color", "scale")
    /\ Return(Mul(top.got, top.comps.object.material.transparency))
    /\ UNCHANGED <<call, world, cast>>

IsShadowed ==
    /\ Running("is_shadowed", "start")
    /\ Return(is_shadowed(world, top.p))
    /\ UNCHANGED <<call, world, cast>>

(* The scenes: a floor at 0 seen from -2, a wall at -4 behind the eye, a   *)
(* wall at 8 behind the floor, lights at -10, -2 and 6.                    *)

mirror == with_reflective(Material, One)
glass == with_refractive_index(with_transparency(Material, One), 150)
glazed == with_refractive_index(with_transparency(with_reflective(Material, 50), 50), 150)
ghost == with_cast_shadows(Material, FALSE)
unshadowed == with_receive_shadows(Material, FALSE)

Floors == {<<Object("Plane", 0, 1, m)>> :
              m \in {Material, mirror, glass, glazed, ghost, unshadowed}}
          \cup {<<Object("Sphere", 2, 2, glass)>>, <<>>}
BackWalls == {<<Object("Plane", -4, 1, m)>> : m \in {Material, mirror, ghost}} \cup {<<>>}
FarWalls == {<<Object("Plane", 8, 1, Material)>>, <<>>}

LightLists == {l \in Seqs({PointLight(p, One) : p \in {-10, -2, 6}}, MaxLights) :
                  \A i, j \in 1..Len(l) : i # j => l[i] # l[j]}

Worlds == {[lights |-> l, objects |-> b \o f \o w] :
              l \in LightLists, b \in BackWalls, f \in Floors, w \in FarWalls}

WorldCalls ==
    {[op |-> "color_at", r |-> Ray(-2, d), remaining |-> n] :
        d \in {-1, 1}, n \in 0..MaxRemaining}
    \cup {[op |-> "is_shadowed", p |-> p] : p \in {-3, -1, 1}}

(* World::new() is the empty world; the builders give it a scene, and    *)
(* then one of its entry points is called.                                 *)
World_new == [lights |-> <<>>, objects |-> <<>>]

InitWorld ==
    /\ call = [op |-> "new"]
    /\ world = World_new
    /\ stack = <<>>
    /\ ret = Pending
    /\ cast = 0
    /\ RenderIdle

WithScene ==
    /\ call.op = "new"
    /\ world' \in Worlds
    /\ call' = [op |-> "with_lights"]
    /\ UNCHANGED <<ret, stack, cast>>

Enter ==
    /\ call.op = "with_lights"
    /\ call' \in WorldCalls
    /\ stack' = IF call'.op = "color_at"
                THEN <<ColorAtFrame(call'.r, call'.remaining)>>
                ELSE <<IsShadowedFrame(call'.p)>>
    /\ UNCHANGED <<ret, world, cast>>

NextWorld ==
    \/ WithScene /\ UNCHANGED renderVars
    \/ Enter /\ UNCHANGED renderVars
    \/ ColorAt /\ UNCHANGED renderVars
    \/ ColorAtReturn /\ UNCHANGED renderVars
    \/ ShadeHitLight /\ UNCHANGED renderVars
    \/ ShadeHitRefract /\ UNCHANGED renderVars
    \/ ShadeHitAdd /\ UNCHANGED renderVars
    \/ ShadeHitSum /\ UNCHANGED renderVars
    \/ ReflectedColor /\ UNCHANGED renderVars
    \/ ReflectedColorScale /\ UNCHANGED renderVars
    \/ RefractedColor /\ UNCHANGED renderVars
    \/ RefractedColorScale /\ UNCHANGED renderVars
    \/ IsShadowed /\ UNCHANGED renderVars

SpecWorld == InitWorld /\ [][NextWorld]_vars

\* Every call runs on to its return: the methods are sequential code.
SpecWorldFair == SpecWorld /\ WF_vars(NextWorld)

-----------------------------------------------------------------------------
(* Claims about world.rs, checked under SpecWorld and SpecWorldFair *)

Frames(fn) == {i \in 1..Len(stack) : stack[i].fn = fn}

\* color_at runs only as the outermost call or directly under a
\* reflected_color or refracted_color call that had budget left, and with
\* that budget less one.
Nesting ==
    /\ Cardinality(Frames("color_at")) <= call.remaining + 1
    /\ \A i \in Frames("color_at") :
          /\ stack[i].remaining >= 0
          /\ i > 1 =>
                /\ stack[i - 1].fn \in {"reflected_color", "refracted_color"}
                /\ stack[i - 1].remaining > 0
                /\ stack[i].remaining = stack[i - 1].remaining - 1

\* C1: color_at(ray, n) terminates in every world: only reflected_color and
\* refracted_color call color_at again, each with remaining - 1 and never
\* when remaining = 0, so at most n + 1 calls of color_at are nested.
C1_Terminates ==
    /\ [](call.op = "color_at" => Nesting)
    /\ <>(ret # Pending)

\* two facing mirrors, the budget used up to the last level
C1_Witness ==
    /\ call.op = "color_at"
    /\ call.remaining = MaxRemaining
    /\ Cardinality(Frames("color_at")) = MaxRemaining + 1
    /\ \A i \in Frames("shade_hit") : stack[i].comps.object.material = mirror
    /\ Running("reflected_color", "start")
    /\ top.remaining = 0

Entry(fn) == Running(fn, "start") /\ top.remaining = 0

\* C2: with remaining = 0 reflected_color and refracted_color hand black
\* back to shade_hit whatever the material of the hit object is, and no
\* reflection or refraction ray is constructed.
C2_BlackAtZero ==
    [][(Entry("reflected_color") \/ Entry("refracted_color")) =>
          /\ Len(stack') = Len(stack) - 1
          /\ Entry("reflected_color") => stack'[Len(stack')].reflected = black
          /\ Entry("refracted_color") => stack'[Len(stack')].refracted = black
          /\ cast' = cast]_vars

C2_Witness ==
    /\ Running("shade_hit", "add")
    /\ top.remaining = 0
    /\ top.comps.object.material = glazed
    /\ top.reflected = black /\ top.refracted = black
    /\ cast = 0

\* Some object that casts shadows meets the ray from p toward the light
\* strictly between p and the light.
Blocked(w, p, light) ==
    LET v == light.position - p
    IN  \E k \in 1..Len(w.objects) :
           /\ w.objects[k].material.cast_shadows
           /\ \E i \in 1..Len(Object_intersects(w.objects[k], Ray(p, normalize(v)))) :
                 LET t == Object_intersects(w.objects[k], Ray(p, normalize(v)))[i].t
                 IN  0 < t /\ t < Abs(v)

\* C7: a point is reported shadowed with respect to a light iff an object
\* with cast_shadows meets the ray from the point toward that light at some
\* t with 0 < t < distance to that light.
C7_ShadowedPerLight ==
    Done("is_shadowed") =>
        \A k \in 1..Len(world.lights) :
            ret.value <=> Blocked(world, call.p, world.lights[k])

\* C8: the in_shadow flag shade_hit passes to lighting for a light is
\* receive_shadows of the hit material and the point being blocked from
\* that same light.
C8_InShadowPerLight ==
    \A i \in Frames("shade_hit") :
        stack[i].pc \in {"reflected", "refract", "refracted", "add"} =>
            (stack[i].in_shadow <=>
                /\ stack[i].comps.object.material.receive_shadows
                /\ Blocked(world, stack[i].comps.over_point,
                           world.lights[stack[i].light]))

RECURSIVE Surfaces(_, _)
Surfaces(frame, k) ==
    IF k = 0 THEN black
    ELSE Surfaces(frame, k - 1)
         + lighting(frame.comps.object.material, world.lights[k],
                    frame.comps.over_point, frame.comps.eye_v,
                    frame.comps.normal_v,
                    /\ frame.comps.object.material.receive_shadows
                    /\ is_shadowed(world, frame.comps.over_point))

\* C9: shade_hit returns the sum over the lights of the surface colour plus
\* the reflected/refracted contribution added once, however many lights
\* the world has.
C9_AddedOnce ==
    \A i \in Frames("shade_hit") :
        (stack[i].pc = "light" /\ stack[i].light > Len(world.lights)
            /\ world.lights # <<>>) =>
            stack[i].sum = Surfaces(stack[i], Len(world.lights)) + stack[i].ref_sum

\* C10: the contribution is reflectance * reflected + (1 - reflectance) *
\* refracted with reflectance = schlick(comps) when the hit material has
\* reflective > 0 and transparency > 0, and reflected + refracted otherwise.
C10_Blend ==
    \A i \in Frames("shade_hit") :
        (stack[i].pc = "light" /\ stack[i].light > 1) =>
            LET f == stack[i]
                m == f.comps.object.material
            IN  f.ref_sum =
                   IF m.reflective > 0 /\ m.transparency > 0
                   THEN Mul(f.reflected, schlick(f.comps))
                        + Mul(f.refracted, One - schlick(f.comps))
                   ELSE f.reflected + f.refracted

C10_Witness ==
    /\ Running("shade_hit", "light")
    /\ top.light = 2
    /\ top.comps.object.material = glazed
    /\ schlick(top.comps) = 4
    /\ top.reflected = 95 /\ top.refracted = 5
    /\ top.ref_sum = 7

-----------------------------------------------------------------------------
(* camera.rs, canvas.rs: Camera::render on a pool of workers.              *)
(* The camera keeps the identity transform; a ray is given by the world    *)
(* x and y of the pixel it goes through, in units of half a pixel_size.    *)

MaxSize == 2
MaxWorkers == 2

Camera(h_size, v_size) == [h_size |-> h_size, v_size |-> v_size]

Canvas_new(width, height) ==
    [width |-> width, height |-> height,
     pixels |-> [i \in 1..(width * height) |-> black]]

xy_to_idx(canvas, x, y) == canvas.width * y + x

write_pixel(canvas, x, y, c) ==
    [canvas EXCEPT !.pixels[xy_to_idx(canvas, x, y) + 1] = c]

ray_for_pixel(camera, px, py) ==
    LET world_x == camera.h_size - (2 * px + 1)
        world_y == camera.v_size - (2 * py + 1)
    IN  Ray(<<0, 0, 0>>, <<world_x, world_y, -1>>)

\* World::color_at for the rays of the camera: the empty world is black
\* everywhere, a world with a floor shows the floor's ambient colour along
\* every ray that points downwards.
render_color_at(w, ray) ==
    IF w.objects # <<>> /\ ray.direction[2] < 0
    THEN Mul(w.objects[1].material.color, w.objects[1].material.ambient)
    ELSE black

RenderWorlds == {World_new, [lights |-> <<>>, objects |-> <<Object("Plane", -4, 1, Material)>>]}

Workers == 1..MaxWorkers

Idle == [pc |-> "idle"]

\* ys.flat_map(|y| xs.clone().map(move |x| (x, y)))
flat_map(camera) ==
    [i \in 1..(camera.h_size * camera.v_size) |->
        [x |-> (i - 1) % camera.h_size, y |-> (i - 1) \div camera.h_size]]

\* render up to the start of for_each: the canvas is in its mutex, the
\* pixels wait in the iterator, the pool is idle.
InitRender ==
    /\ \E h \in 1..MaxSize, v \in 1..MaxSize, w \in RenderWorlds :
          /\ call = [op |-> "render", self |-> Camera(h, v), w |-> w]
          /\ cross = flat_map(Camera(h, v))
          /\ image_mutex = [data |-> Canvas_new(h, v), owner |-> {}]
    /\ workers = [id \in Workers |-> Idle]
    /\ ret = Pending
    /\ WorldIdle

\* A worker that takes the lock as soon as it is handed a pixel.
ForEach_locked(id) ==
    /\ workers[id].pc = "idle"
    /\ cross # <<>>
    /\ image_mutex.owner = {}
    /\ workers' = [workers EXCEPT ![id] =
                      [pc |-> "ray_for_pixel", x |-> Head(cross).x, y |-> Head(cross).y]]
    /\ cross' = Tail(cross)
    /\ image_mutex' = [image_mutex EXCEPT !.owner = {id}]
    /\ UNCHANGED <<call, ret>>

\* A for_each that hands out a pixel and leaves it in the iterator.
ForEach_again(id) ==
    /\ workers[id].pc = "idle"
    /\ cross # <<>>
    /\ workers' = [workers EXCEPT ![id] =
                      [pc |-> "ray_for_pixel", x |-> Head(cross).x, y |-> Head(cross).y]]
    /\ UNCHANGED <<call, ret, image_mutex, cross>>

\* par_bridge().for_each hands the next pixel to a free worker
ForEach(id) ==
    /\ workers[id].pc = "idle"
    /\ cross # <<>>
    /\ workers' = [workers EXCEPT ![id] =
                      [pc |-> "ray_for_pixel", x |-> Head(cross).x, y |-> Head(cross).y]]
    /\ cross' = Tail(cross)
    /\ UNCHANGED <<call, ret, image_mutex>>

RayForPixel(id) ==
    /\ workers[id].pc = "ray_for_pixel"
    /\ workers' = [workers EXCEPT ![id] =
                      [pc |-> "color_at", x |-> @.x, y |-> @.y,
                       ray |-> ray_for_pixel(call.self, @.x, @.y)]]
    /\ UNCHANGED <<call, ret, cross, image_mutex>>

RenderColorAt(id) ==
    /\ workers[id].pc = "color_at"
    /\ workers' = [workers EXCEPT ![id] =
                      [pc |-> "lock", x |-> @.x, y |-> @.y,
                       color |-> render_color_at(call.w, @.ray)]]
    /\ UNCHANGED <<call, ret, cross, image_mutex>>

\* image_mutex.lock() blocks until the mutex is free
Lock(id) ==
    /\ workers[id].pc = "lock"
    /\ image_mutex.owner = {}
    /\ image_mutex' = [image_mutex EXCEPT !.owner = {id}]
    /\ workers' = [workers EXCEPT ![id].pc = "write_pixel"]
    /\ UNCHANGED <<call, ret, cross>>

\* write_pixel, then the guard goes out of scope with the closure
WritePixel(id) ==
    /\ workers[id].pc = "write_pixel"
    /\ image_mutex' = [data |-> write_pixel(image_mutex.data, workers[id].x,
                                            workers[id].y, workers[id].color),
                       owner |-> {}]
    /\ workers' = [workers EXCEPT ![id] = Idle]
    /\ UNCHANGED <<call, ret, cross>>

\* for_each is over when every pixel went through the closure; render
\* locks the mutex once more and returns a clone of the canvas.
RenderReturn ==
    /\ call.op = "render"
    /\ ret = Pending
    /\ cross = <<>>
    /\ \A id \in Workers : workers[id].pc = "idle"
    /\ image_mutex.owner = {}
    /\ ret' = Returned(image_mutex.data)
    /\ UNCHANGED <<call, cross, image_mutex, workers>>

NextRender ==
    \/ \E id \in Workers : ForEach(id) /\ UNCHANGED worldVars
    \/ \E id \in Workers : RayForPixel(id) /\ UNCHANGED worldVars
    \/ \E id \in Workers : RenderColorAt(id) /\ UNCHANGED worldVars
    \/ \E id \in Workers : Lock(id) /\ UNCHANGED worldVars
    \/ \E id \in Workers : WritePixel(id) /\ UNCHANGED worldVars
    \/ RenderReturn /\ UNCHANGED worldVars

SpecRender == InitRender /\ [][NextRender]_vars

-----------------------------------------------------------------------------
(* Claims about camera.rs, checked under SpecRender *)

\* C11: a worker holds the lock on the canvas only for its write_pixel:
\* whoever owns the mutex is at write_pixel, so no worker owns it while it
\* waits for a pixel, computes ray_for_pixel or traces the ray.
C11_LockScope ==
    \A id \in Workers :
        workers[id].pc \in {"idle", "ray_for_pixel", "color_at", "lock"}
            => id \notin image_mutex.owner

\* One worker is writing its pixel under the lock while another one traces.
C11_Witness ==
    \E id \in Workers, other \in Workers :
        /\ image_mutex.owner = {id}
        /\ workers[id].pc = "write_pixel"
        /\ workers[other].pc = "color_at"
-----------------------------------------------------------------------------
(* Object::intersects, normal_at, world_to_object and normal_to_world of   *)
(* shapes/mod.rs applied to objects whose transform may have determinant 0 *)

Transformed == {Object(shape, translation, scaling, Material) :
                   shape \in {"Sphere", "Plane"}, translation \in {-4, 0, 4},
                   scaling \in {0, 2, 4}}

\* What the caller sees: a panic unwinds through it, a value is returned.
Outcome(object, v) == IF inverse(object) = None THEN v ELSE Returned(v)

InitObject ==
    /\ \E object \in Transformed :
          \/ \E origin \in {-6, -2, 2, 6}, direction \in {-1, 1} :
                call = [op |-> "intersects", self |-> object, r |-> Ray(origin, direction)]
          \/ \E point \in {-6, -2, 2, 6} :
                call = [op |-> "normal_at", self |-> object, world_point |-> point]
          \/ \E point \in {-6, -2, 2, 6} :
                call = [op |-> "world_to_object", self |-> object, point |-> point]
          \/ \E normal \in {-1, 1} :
                call = [op |-> "normal_to_world", self |-> object, normal |-> normal]
    /\ ret = Pending
    /\ WorldIdle
    /\ RenderIdle

ObjectIntersects ==
    /\ call.op = "intersects"
    /\ ret = Pending
    /\ ret' = Outcome(call.self, Object_intersects(call.self, call.r))
    /\ UNCHANGED call

ObjectNormalAt ==
    /\ call.op = "normal_at"
    /\ ret = Pending
    /\ ret' = Outcome(call.self, Object_normal_at(call.self, call.world_point))
    /\ UNCHANGED call

WorldToObject ==
    /\ call.op = "world_to_object"
    /\ ret = Pending
    /\ ret' = Outcome(call.self, world_to_object(call.self, call.point))
    /\ UNCHANGED call

NormalToWorld ==
    /\ call.op = "normal_to_world"
    /\ ret = Pending
    /\ ret' = Outcome(call.self, normal_to_world(call.self, call.normal))
    /\ UNCHANGED call

NextObject ==
    \/ ObjectIntersects /\ UNCHANGED <<worldVars, renderVars>>
    \/ ObjectNormalAt /\ UNCHANGED <<worldVars, renderVars>>
    \/ WorldToObject /\ UNCHANGED <<worldVars, renderVars>>
    \/ NormalToWorld /\ UNCHANGED <<worldVars, renderVars>>

SpecObject == InitObject /\ [][NextObject]_vars

\* C12: on an object whose transform has no inverse none of the four
\* operations panics: intersects returns no intersections, normal_at,
\* world_to_object and normal_to_world return the zero vector.
C12_FailSoft ==
    (ret # Pending /\ inverse(call.self) = None) =>
        /\ ret # Panic
        /\ ret = Returned(IF call.op = "intersects" THEN <<>> ELSE 0)

-----------------------------------------------------------------------------
(* Space: bounds.rs, matrix.rs, transformations.rs.                        *)
(* From here on points and vectors are triples of f64 in space.  The       *)
(* finite values are integers; the infinities are two integers beyond      *)
(* every coordinate in use, so that they order as in f64, and NaN is a     *)
(* third one, which the operations below treat as f64 does.                *)

INFINITY == 1000000
NEG_INFINITY == -1000000
NaN == 2000000

finite(a) == NEG_INFINITY < a /\ a < INFINITY

fadd(a, b) ==
    IF finite(a) /\ finite(b) THEN a + b
    ELSE IF a = NaN \/ b = NaN THEN NaN
    ELSE IF finite(a) THEN b
    ELSE IF finite(b) \/ a = b THEN a
    ELSE NaN

fmul(a, b) ==
    IF finite(a) /\ finite(b) THEN a * b
    ELSE IF a = NaN \/ b = NaN \/ a = 0 \/ b = 0 THEN NaN
    ELSE IF (a > 0) = (b > 0) THEN INFINITY ELSE NEG_INFINITY

\* f64 division; the finite operands in use divide without remainder
fdiv(a, b) ==
    IF a = NaN \/ b = NaN THEN NaN
    ELSE IF b = 0
         THEN IF a = 0 THEN NaN ELSE IF a > 0 THEN INFINITY ELSE NEG_INFINITY
    ELSE IF ~finite(a)
         THEN IF finite(b) THEN IF (a > 0) = (b > 0) THEN INFINITY ELSE NEG_INFINITY
              ELSE NaN
    ELSE IF ~finite(b) THEN 0
    ELSE IF (a < 0) = (b < 0) THEN Abs(a) \div Abs(b) ELSE -(Abs(a) \div Abs(b))

\* the comparisons of f64: false as soon as one side is NaN
flt(a, b) == a # NaN /\ b # NaN /\ a < b
fle(a, b) == a # NaN /\ b # NaN /\ a <= b

\* f64::min and f64::max: a NaN operand is ignored
fmin(a, b) == IF a = NaN THEN b ELSE IF b = NaN THEN a ELSE IF a < b THEN a ELSE b
fmax(a, b) == IF a = NaN THEN b ELSE IF b = NaN THEN a ELSE IF a > b THEN a ELSE b

\* Matrix::identity(4); a matrix is the tuple of its rows
identity == <<<<1, 0, 0, 0>>, <<0, 1, 0, 0>>, <<0, 0, 1, 0>>, <<0, 0, 0, 1>>>>

transpose(m) == [row \in 1..Len(m) |-> [col \in 1..Len(m) |-> m[col][row]]]

\* impl Mul for &Matrix
Matrix_mul(self, rhs) ==
    [row \in 1..4 |-> [col \in 1..4 |->
        self[row][1] * rhs[1][col] + self[row][2] * rhs[2][col]
            + self[row][3] * rhs[3][col] + self[row][4] * rhs[4][col]]]

\* impl Mul<&T> for &Matrix: w is 1 for a Point and 0 for a Vector
Matrix_mul_tuple(self, rhs, w) ==
    [row \in 1..3 |->
        fadd(fadd(fadd(fmul(self[row][1], rhs[1]), fmul(self[row][2], rhs[2])),
                  fmul(self[row][3], rhs[3])),
             fmul(self[row][4], w))]

submatrix(m, row, col) ==
    [r \in 1..(Len(m) - 1) |-> [c \in 1..(Len(m) - 1) |->
        m[IF r < row THEN r ELSE r + 1][IF c < col THEN c ELSE c + 1]]]

RECURSIVE determinant(_)
minor(m, row, col) == determinant(submatrix(m, row, col))

cofactor(m, row, col) ==
    IF (row + col) % 2 = 0 THEN minor(m, row, col) ELSE -minor(m, row, col)

determinant(m) ==
    LET sum[col \in 0..Len(m)] ==
            IF col = 0 THEN 0 ELSE sum[col - 1] + m[1][col] * cofactor(m, 1, col)
    IN  IF Len(m) = 2
        THEN m[1][1] * m[2][2] - m[1][2] * m[2][1]
        ELSE sum[Len(m)]

\* Matrix::inverse: None when the determinant is 0.0, else every cofactor
\* over the determinant, transposed.  The quotients are kept as the matrix
\* of numerators over the common denominator det.
Matrix_inverse(m) ==
    LET cofactor_matrix(det) ==
            IF det = 0
            THEN None
            ELSE [num |-> transpose([row \in 1..4 |-> [col \in 1..4 |-> cofactor(m, row, col)]]),
                  den |-> det]
    IN  cofactor_matrix(determinant(m))

\* Transformation::prepare_transform and the struct it fills
prepare_transform(t) ==
    LET filled(transform_inverse) ==
            [matrix |-> t,
             inverse |-> transform_inverse,
             inverse_transposed |-> IF transform_inverse # None
                                    THEN [num |-> transpose(transform_inverse.num),
                                          den |-> transform_inverse.den]
                                    ELSE None]
    IN  filled(Matrix_inverse(t))

new_transform == prepare_transform(identity)

\* Transformation::apply_transform with the product the other way round
apply_transform_post(self, t) == prepare_transform(Matrix_mul(self.matrix, t.matrix))

apply_transform(self, t) == prepare_transform(Matrix_mul(t.matrix, self.matrix))

translation(self, x, y, z) ==
    prepare_transform(Matrix_mul(
        <<<<1, 0, 0, x>>, <<0, 1, 0, y>>, <<0, 0, 1, z>>, <<0, 0, 0, 1>>>>, self.matrix))

scaling(self, x, y, z) ==
    prepare_transform(Matrix_mul(
        <<<<x, 0, 0, 0>>, <<0, y, 0, 0>>, <<0, 0, z, 0>>, <<0, 0, 0, 1>>>>, self.matrix))

Bounds_new(min, max) == [min |-> min, max |-> max]

Bounds_default ==
    Bounds_new(<<INFINITY, INFINITY, INFINITY>>,
               <<NEG_INFINITY, NEG_INFINITY, NEG_INFINITY>>)

\* impl Add<&Point> for Bounds
Bounds_add_point(self, rhs) ==
    Bounds_new([i \in 1..3 |-> fmin(self.min[i], rhs[i])],
               [i \in 1..3 |-> fmax(self.max[i], rhs[i])])

\* impl Add for Bounds
Bounds_add(self, rhs) == Bounds_add_point(Bounds_add_point(self, rhs.min), rhs.max)

contains_point(self, point) ==
    \A i \in 1..3 : fle(self.min[i], point[i]) /\ fle(point[i], self.max[i])

Bounds_contains(self, other) ==
    contains_point(self, other.min) /\ contains_point(self, other.max)

\* Bounds::transform: the eight corners, added to the empty box
Bounds_transform(self, transformation) ==
    LET side(k, i) == IF ((k - 1) \div (2 ^ (3 - i))) % 2 = 0 THEN self.min[i] ELSE self.max[i]
        p(k) == Matrix_mul_tuple(transformation.matrix, <<side(k, 1), side(k, 2), side(k, 3)>>, 1)
        bounds[k \in 0..8] ==
            IF k = 0 THEN Bounds_default ELSE Bounds_add_point(bounds[k - 1], p(k))
    IN  bounds[8]

\* Bounds::split: along the first of x, y, z that has the largest size
split(self) ==
    LET halves(axis, mid) ==
            [left |-> Bounds_new(self.min, [self.max EXCEPT ![axis] = mid]),
             right |-> Bounds_new([self.min EXCEPT ![axis] = mid], self.max)]
        along(size, axis) == halves(axis, fadd(self.min[axis], fdiv(size[axis], 2)))
        largest(size, max_size) ==
            along(size, IF max_size = size[1] /\ max_size # NaN THEN 1
                        ELSE IF max_size = size[2] /\ max_size # NaN THEN 2 ELSE 3)
        sized(size) == largest(size, fmax(size[1], fmax(size[2], size[3])))
    IN  sized([i \in 1..3 |-> fadd(self.max[i], fmul(-1, self.min[i]))])

check_axis(origin, direction, min, max) ==
    LET ordered(tmin, tmax) == IF flt(tmin, tmax) THEN <<tmin, tmax>> ELSE <<tmax, tmin>>
    IN  ordered(fdiv(fadd(min, fmul(-1, origin)), direction),
                fdiv(fadd(max, fmul(-1, origin)), direction))

Bounds_intersects(self, ray) ==
    LET between(tmin, tmax) == IF flt(tmax, 0) THEN FALSE ELSE fle(tmin, tmax)
        within(t) == between(fmax(t[1][1], fmax(t[2][1], t[3][1])),
                             fmin(t[1][2], fmin(t[2][2], t[3][2])))
    IN  within([i \in 1..3 |->
                   check_axis(ray.origin[i], ray.direction[i], self.min[i], self.max[i])])

-----------------------------------------------------------------------------
(* shapes/mod.rs, shapes/group.rs: objects in space.  An object is the     *)
(* record of its transform, shape and bounds (every material is the        *)
(* default one); a shape is a unit sphere or a group with its children.    *)

MaxDepth == 2

Sphere == [kind |-> "Sphere"]
Group(children) == [kind |-> "Group", children |-> children]

\* ObjectBuilder::new_sphere, new_group, with_transform, add_child
new_sphere == [transform |-> new_transform, material |-> Material, shape |-> Sphere]
new_group == [transform |-> new_transform, material |-> Material, shape |-> Group(<<>>)]
with_transform(builder, transform) == [builder EXCEPT !.transform = transform]
with_material(builder, material) == [builder EXCEPT !.material = material]
add_child(builder, child) == [builder EXCEPT !.shape.children = Append(@, child)]

\* Group::bounds: the fold of the children's boxes from the empty box
Group_bounds(children) ==
    LET bounds[k \in 0..Len(children)] ==
            IF k = 0 THEN Bounds_default
            ELSE Bounds_add(bounds[k - 1], children[k].bounds)
    IN  bounds[Len(children)]

Shape_bounds(shape) ==
    IF shape.kind = "Group"
    THEN Group_bounds(shape.children)
    ELSE Bounds_new(<<-1, -1, -1>>, <<1, 1, 1>>)

RECURSIVE Object_apply_transform(_, _)
Object_apply_transform(self, transform) ==
    [transform |-> IF self.shape.kind = "Group"
                   THEN new_transform
                   ELSE apply_transform(self.transform, transform),
     material |-> self.material,
     shape |-> IF self.shape.kind = "Group"
               THEN Group([i \in 1..Len(self.shape.children) |->
                              Object_apply_transform(self.shape.children[i], transform)])
               ELSE self.shape,
     bounds |-> Bounds_transform(self.bounds, transform)]

\* ObjectBuilder::build; builder is self and shape is the shape of the
\* built object, each evaluated once
build(self) ==
    LET transformed(builder) ==
            IF builder.shape.kind = "Group"
            THEN [transform |-> new_transform,
                  material |-> builder.material,
                  shape |-> Group([i \in 1..Len(builder.shape.children) |->
                                      Object_apply_transform(builder.shape.children[i],
                                                             builder.transform)])]
            ELSE builder
    IN  CHOOSE object \in
            {[transform |-> b.transform,
              material |-> b.material,
              shape |-> b.shape,
              bounds |-> Bounds_transform(Shape_bounds(b.shape), b.transform)] :
                b \in {transformed(builder) : builder \in {self}}} : TRUE

\* Group::partition_children that asks the right half first
partition_children_right_first(children) ==
    LET halves == split(Group_bounds(children))
        right(child) == Bounds_contains(halves.right, child.bounds)
        left(child) == ~right(child) /\ Bounds_contains(halves.left, child.bounds)
        keep(child) == ~right(child) /\ ~left(child)
    IN  [left |-> SelectSeq(children, left), right |-> SelectSeq(children, right),
         to_keep |-> SelectSeq(children, keep)]

\* Group::partition_children: the children inside the left half of the
\* group's box, those inside the right half, and the ones to keep
partition_children(children) ==
    LET halves == split(Group_bounds(children))
        left(child) == Bounds_contains(halves.left, child.bounds)
        right(child) == ~left(child) /\ Bounds_contains(halves.right, child.bounds)
        walk_children[k \in 0..Len(children)] ==
            IF k = 0 THEN [left |-> <<>>, right |-> <<>>, to_keep |-> <<>>]
            ELSE LET child == children[k]
                     before == walk_children[k - 1]
                 IN  IF left(child) THEN [before EXCEPT !.left = Append(@, child)]
                     ELSE IF right(child) THEN [before EXCEPT !.right = Append(@, child)]
                     ELSE [before EXCEPT !.to_keep = Append(@, child)]
    IN  walk_children[Len(children)]

\* Group::make_subgroup
make_subgroup(children, children_list) ==
    LET sub_g[k \in 0..Len(children_list)] ==
            IF k = 0 THEN new_group ELSE add_child(sub_g[k - 1], children_list[k])
    IN  Append(children, build(sub_g[Len(children_list)]))

RECURSIVE Group_divide(_, _)

\* Object::divide, Shape::divide: only a group is divided
Object_divide(self, threshold) ==
    IF self.shape.kind = "Group"
    THEN [self EXCEPT !.shape.children = Group_divide(@, threshold)]
    ELSE self

\* Group::divide that partitions only above the threshold
Group_divide_above(children, threshold) ==
    LET with_left(parts) == IF parts.left # <<>>
                            THEN make_subgroup(parts.to_keep, parts.left)
                            ELSE parts.to_keep
        with_right(parts) == IF parts.right # <<>>
                             THEN make_subgroup(with_left(parts), parts.right)
                             ELSE with_left(parts)
        divided == IF threshold < Len(children)
                   THEN {with_right(parts) : parts \in {partition_children(children)}}
                   ELSE {children}
    IN  CHOOSE after \in {[i \in 1..Len(d) |-> Object_divide(d[i], threshold)] :
                              d \in divided} : TRUE

\* Group::divide
Group_divide(children, threshold) ==
    LET with_left(parts) == IF parts.left # <<>>
                            THEN make_subgroup(parts.to_keep, parts.left)
                            ELSE parts.to_keep
        with_right(parts) == IF parts.right # <<>>
                             THEN make_subgroup(with_left(parts), parts.right)
                             ELSE with_left(parts)
        divided == IF threshold <= Len(children)
                   THEN {with_right(parts) : parts \in {partition_children(children)}}
                   ELSE {children}
    IN  CHOOSE after \in {[i \in 1..Len(d) |-> Object_divide(d[i], threshold)] :
                              d \in divided} : TRUE

\* Ray::transform by the inverse of a transform.  The quotients are whole
\* numbers for the transforms of determinant 1 and -1.
Ray_transform(self, m) ==
    Ray([i \in 1..3 |-> fdiv(Matrix_mul_tuple(m.num, self.origin, 1)[i], m.den)],
        [i \in 1..3 |-> fdiv(Matrix_mul_tuple(m.num, self.direction, 0)[i], m.den)])

dot(a, b) == a[1] * b[1] + a[2] * b[2] + a[3] * b[3]

\* Sphere::intersects of shapes/sphere.rs, on the ray in object space
Sphere_intersects_space(object, ray) ==
    LET sphere_to_ray == ray.origin
        a == dot(ray.direction, ray.direction)
        b == 2 * dot(ray.direction, sphere_to_ray)
        c == dot(sphere_to_ray, sphere_to_ray) - 1
        discriminant == b * b - 4 * a * c
    IN  IF discriminant < 0
        THEN <<>>
        ELSE <<Intersection((-b - isqrt(discriminant)) \div (2 * a), object),
               Intersection((-b + isqrt(discriminant)) \div (2 * a), object)>>

\* slice::sort_unstable_by on t: the orders the sort may leave the entries
\* at positions I in, entries with the same t in any order
RECURSIVE sort_unstable_by(_, _)
sort_unstable_by(xs, I) ==
    IF I = {}
    THEN {<<>>}
    ELSE UNION {{<<xs[i]>> \o rest : rest \in sort_unstable_by(xs, I \ {i})} :
                   i \in {i \in I : \A j \in I : xs[i].t <= xs[j].t}}

RECURSIVE Group_intersects(_, _)

\* Object::intersects: a group gets the ray as it is, any other shape gets
\* it in object space through inverse().unwrap()
Object_intersects_space(self, r) ==
    IF self.shape.kind = "Group"
    THEN (CHOOSE outcome \in Group_intersects(self.shape.children, r) : TRUE).xs
    ELSE IF self.transform.inverse = None
    THEN Panic
    ELSE Sphere_intersects_space(self, Ray_transform(r, self.transform.inverse))

\* Group::intersects that leaves out the sort
Group_intersects_unsorted(children, ray) ==
    LET pushed[k \in 0..Len(children)] ==
            IF k = 0 THEN <<>>
            ELSE pushed[k - 1] \o Object_intersects_space(children[k], ray)
    IN  IF Bounds_intersects(Group_bounds(children), ray)
        THEN {[xs |-> pushed[Len(children)], tested |-> children]}
        ELSE {[xs |-> <<>>, tested |-> <<>>]}

\* Group::intersects: the outcomes, each with the intersections returned
\* and the children whose intersects was called
Group_intersects(children, ray) ==
    LET pushed[k \in 0..Len(children)] ==
            IF k = 0 THEN <<>>
            ELSE pushed[k - 1] \o Object_intersects_space(children[k], ray)
    IN  IF Bounds_intersects(Group_bounds(children), ray)
        THEN {[xs |-> sorted, tested |-> children] :
                 sorted \in UNION {sort_unstable_by(xs, DOMAIN xs) :
                                      xs \in {pushed[Len(children)]}}}
        ELSE {[xs |-> <<>>, tested |-> <<>>]}

-----------------------------------------------------------------------------
(* Bounds addition and Cone::bounds applied to hand-built arguments *)

\* Cone::default() with with_minimum and with_maximum
Cone(minimum, maximum) == [minimum |-> minimum, maximum |-> maximum]

Cone_bounds(self) ==
    Bounds_new(<<self.minimum, self.minimum, self.minimum>>,
               <<self.maximum, self.maximum, self.maximum>>)

Corners == {<<-4, -2, 0>>, <<-2, -2, -2>>, <<0, 0, 0>>, <<2, 4, 2>>, <<4, 4, 4>>}

\* The empty box, the box of a plane, and boxes with min <= max.
Boxes ==
    {Bounds_default,
     Bounds_new(<<NEG_INFINITY, 0, NEG_INFINITY>>, <<INFINITY, 0, INFINITY>>)}
    \cup {Bounds_new(c[1], c[2]) :
             c \in {c \in Corners \X Corners : \A i \in 1..3 : c[1][i] <= c[2][i]}}

Extents == {NEG_INFINITY, -4, -2, 0, 2, 4, INFINITY}

InitBounds ==
    /\ \/ \E self \in Boxes, rhs \in Boxes :
             call = [op |-> "add", self |-> self, rhs |-> rhs]
       \/ \E minimum \in Extents, maximum \in Extents :
             /\ minimum <= maximum
             /\ call = [op |-> "bounds", self |-> Cone(minimum, maximum)]
    /\ ret = Pending
    /\ WorldIdle
    /\ RenderIdle

BoundsAdd ==
    /\ call.op = "add"
    /\ ret = Pending
    /\ ret' = Returned(Bounds_add(call.self, call.rhs))
    /\ UNCHANGED call

ConeBounds ==
    /\ call.op = "bounds"
    /\ ret = Pending
    /\ ret' = Returned(Cone_bounds(call.self))
    /\ UNCHANGED call

NextBounds ==
    \/ BoundsAdd /\ UNCHANGED <<worldVars, renderVars>>
    \/ ConeBounds /\ UNCHANGED <<worldVars, renderVars>>

SpecBounds == InitBounds /\ [][NextBounds]_vars

\* C16: the empty box is the identity of the addition of boxes, on either
\* side: b + empty = b and empty + b = b.
C16_EmptyIsIdentity ==
    Done("add") =>
        /\ call.rhs = Bounds_default => ret.value = call.self
        /\ call.self = Bounds_default => ret.value = call.rhs

\* C20: the box of a cone cut at minimum <= maximum is
\* (-r, minimum, -r) .. (r, maximum, r) with r = max(|minimum|, |maximum|).
C20_ConeBounds ==
    Done("bounds") =>
        LET minimum == call.self.minimum
            maximum == call.self.maximum
            r == fmax(Abs(minimum), Abs(maximum))
        IN  ret.value = Bounds_new(<<-r, minimum, -r>>, <<r, maximum, r>>)

-----------------------------------------------------------------------------
(* Groups built, divided and intersected as the unit tests of              *)
(* shapes/mod.rs do.                                                       *)

\* The identity, a translation, a scaling: the last two do not commute.
Transforms ==
    {new_transform, translation(new_transform, 2, 0, 0), scaling(new_transform, 2, 2, 2)}

\* One level of nesting: the transform given to the group builder and the
\* spheres, by their transforms, added next to the inner object.
Levels == {[transform |-> t, siblings |-> s] :
              t \in Transforms, s \in {<<>>, <<translation(new_transform, 2, 0, 0)>>}}

\* The builds of a nest from the inside out: the sphere with its own
\* transform, then for each level a group around what was built so far.
RECURSIVE nest(_, _)
nest(levels, leaf) ==
    IF levels = <<>>
    THEN build(with_transform(new_sphere, leaf))
    ELSE LET siblings == Head(levels).siblings
             group(children) ==
                 LET builder[k \in 0..Len(children)] ==
                         IF k = 0 THEN with_transform(new_group, Head(levels).transform)
                         ELSE add_child(builder[k - 1], children[k])
                 IN  build(builder[Len(children)])
         IN  CHOOSE object \in
                 {group(<<inner>> \o [i \in 1..Len(siblings) |->
                                         build(with_transform(new_sphere, siblings[i]))]) :
                     inner \in {nest(Tail(levels), leaf)}} : TRUE

MaxChildren == 3
MaxThreshold == 3

\* The spheres of tests::subdividing_a_group_partitions_its_children and a
\* fourth one on the other side of the origin.
s1 == build(with_transform(new_sphere, translation(new_transform, -2, -2, 0)))
s2 == build(with_transform(new_sphere, translation(new_transform, -2, 2, 0)))
s3 == build(with_transform(new_sphere, scaling(new_transform, 4, 4, 4)))
s4 == build(with_transform(new_sphere, translation(new_transform, 2, 0, 0)))

\* The group built from the given children, in their order
group_of(children) == make_subgroup(<<>>, children)[1]

\* Lists of different spheres, and the same lists with a group of two of
\* the spheres as one more child.
ChildLists ==
    LET flat == {l \in Seqs({s1, s2, s3, s4}, MaxChildren) :
                    \A i, j \in 1..Len(l) : i # j => l[i] # l[j]}
    IN  flat \cup {<<group_of(<<s1, s2>>)>> \o l : l \in {f \in flat : Len(f) < MaxChildren}}

\* Unit spheres that are only translated: at the origin, in front of it,
\* and two more at the origin's other sides.
s0 == build(new_sphere)
s5 == build(with_transform(new_sphere, translation(new_transform, 0, 0, -3)))

\* Lists of different translated spheres, and the same lists with a group
\* of two of the spheres as one more child.
TranslatedLists ==
    LET flat == {l \in Seqs({s0, s5, s1, s4}, MaxChildren) :
                    \A i, j \in 1..Len(l) : i # j => l[i] # l[j]}
    IN  flat \cup {<<group_of(<<s5, s1>>)>> \o l : l \in {f \in flat : Len(f) < MaxChildren}}

\* Rays along the axes: through the origin, beside every sphere, along a
\* face of the box of s0, and backwards.
Rays == {Ray(<<0, 0, -6>>, <<0, 0, 1>>), Ray(<<0, 0, -6>>, <<0, 1, 0>>),
         Ray(<<-2, -2, -6>>, <<0, 0, 1>>), Ray(<<1, 0, -6>>, <<0, 0, 1>>),
         Ray(<<6, 0, 0>>, <<-1, 0, 0>>), Ray(<<0, 0, 6>>, <<0, 0, 1>>)}

InitGroup ==
    /\ \/ \E levels \in Seqs(Levels, MaxDepth), leaf \in Transforms :
             call = [op |-> "build", levels |-> levels, leaf |-> leaf]
       \/ \E children \in ChildLists, threshold \in 1..MaxThreshold :
             call = [op |-> "divide", self |-> group_of(children), threshold |-> threshold]
       \/ \E children \in TranslatedLists, r \in Rays :
             call = [op |-> "intersects", self |-> group_of(children), r |-> r]
    /\ ret = Pending
    /\ WorldIdle
    /\ RenderIdle

Build ==
    /\ call.op = "build"
    /\ ret = Pending
    /\ ret' = Returned(nest(call.levels, call.leaf))
    /\ UNCHANGED call

Divide ==
/\ call.op = "divide"
    /\ ret = Pending
    /\ ret' = Returned(Object_divide(call.self, call.threshold))
    /\ UNCHANGED call

GroupIntersects ==
    /\ call.op = "intersects"
    /\ ret = Pending
    /\ \E outcome \in Group_intersects(call.self.shape.children, call.r) :
          ret' = Returned(outcome)
    /\ UNCHANGED call

NextGroup ==
    \/ Build /\ UNCHANGED <<worldVars, renderVars>>
    \/ Divide /\ UNCHANGED <<worldVars, renderVars>>
    \/ GroupIntersects /\ UNCHANGED <<worldVars, renderVars>>

SpecGroup == InitGroup /\ [][NextGroup]_vars

\* The object built from a sphere with transform leaf inside the groups of
\* levels keeps the shape of the nest, every group in it has the identity
\* transform, and every sphere has acc * T1 * ... * Tk * L for the
\* transforms T1 .. Tk of the groups around it, outermost first, and its
\* own L.
RECURSIVE Accounted(_, _, _, _)
Accounted(object, levels, leaf, acc) ==
    IF levels = <<>>
    THEN /\ object.shape = Sphere
         /\ object.transform.matrix = Matrix_mul(acc, leaf.matrix)
    ELSE LET below == Matrix_mul(acc, Head(levels).transform.matrix)
             siblings == Head(levels).siblings
         IN  /\ object.shape.kind = "Group"
             /\ object.transform = new_transform
             /\ Len(object.shape.children) = 1 + Len(siblings)
             /\ Accounted(object.shape.children[1], Tail(levels), leaf, below)
             /\ \A i \in 1..Len(siblings) :
                   Accounted(object.shape.children[1 + i], <<>>, siblings[i], below)

\* C15: after any nesting of group builds every ancestor's transform is
\* accounted for exactly once: a sphere under groups built with T1 .. Tk
\* ends with the transform T1 * ... * Tk * L, and no group of the built
\* tree is left with a transform other than the identity.
C15_Baked ==
    Done("build") => Accounted(ret.value, call.levels, call.leaf, identity)

\* Two nested groups whose transforms do not commute, around a transformed
\* sphere with a sibling.
C15_Witness ==
    /\ Done("build")
    /\ Len(call.levels) = 2
    /\ call.levels[1].transform = scaling(new_transform, 2, 2, 2)
    /\ call.levels[2].transform = translation(new_transform, 2, 0, 0)
    /\ call.levels[2].siblings # <<>>
    /\ call.leaf = translation(new_transform, 2, 0, 0)

\* after is the list that divide makes of the list children of a group:
\* with fewer children than the threshold the list is not partitioned; else
\* the children inside neither half of the group's box stay, in their
\* order, and those inside the left half, then those inside the right
\* half, follow in one new group each, unless there are none.  Every
\* object of the list made so is divided in its turn, a sphere is left as
\* it was.
RECURSIVE DividedChildren(_, _, _)
DividedChildren(children, after, threshold) ==
    LET halves == split(Group_bounds(children))
        InLeft(c) == Bounds_contains(halves.left, c.bounds)
        InRight(c) == ~InLeft(c) /\ Bounds_contains(halves.right, c.bounds)
        InNeither(c) == ~InLeft(c) /\ ~InRight(c)
        partitioned == Len(children) >= threshold
        L == IF partitioned THEN SelectSeq(children, InLeft) ELSE <<>>
        R == IF partitioned THEN SelectSeq(children, InRight) ELSE <<>>
        K == IF partitioned THEN SelectSeq(children, InNeither) ELSE children
        nl == IF L # <<>> THEN 1 ELSE 0
        nr == IF R # <<>> THEN 1 ELSE 0
        Wraps(object, list) ==
            /\ object.shape.kind = "Group"
            /\ object.transform = new_transform
            /\ DividedChildren(list, object.shape.children, threshold)
    IN  /\ Len(after) = Len(K) + nl + nr
        /\ \A i \in 1..Len(K) :
              IF K[i].shape.kind = "Group"
              THEN /\ after[i].shape.kind = "Group"
                   /\ after[i].transform = K[i].transform
                   /\ DividedChildren(K[i].shape.children, after[i].shape.children, threshold)
              ELSE after[i] = K[i]
        /\ L # <<>> => Wraps(after[Len(K) + 1], L)
        /\ R # <<>> => Wraps(after[Len(K) + nl + 1], R)

\* C13: divide(threshold) partitions a group with at least threshold
\* children and wraps each non-empty partition in one new subgroup, leaves
\* a group with fewer children unpartitioned, then does the same in every
\* child, the new subgroups included, and leaves a primitive as it is.  The
\* group of the spheres at (-2,-2,0), (-2,2,0) and the one scaled by 4,
\* divided with threshold 1, has two children: the scaled sphere and a
\* subgroup of two subgroups with one of the other spheres each.
C13_Divide ==
    Done("divide") =>
        /\ ret.value.shape.kind = "Group"
        /\ DividedChildren(call.self.shape.children, ret.value.shape.children,
                           call.threshold)
        /\ (call.self = group_of(<<s1, s2, s3>>) /\ call.threshold = 1) =>
              LET children == ret.value.shape.children
              IN  /\ Len(children) = 2
                  /\ children[1] = s3
                  /\ children[2].shape.kind = "Group"
                  /\ Len(children[2].shape.children) = 2
                  /\ children[2].shape.children[1].shape = Group(<<s1>>)
                  /\ children[2].shape.children[2].shape = Group(<<s2>>)

\* The group of the example has been divided with threshold 1.
C13_Witness ==
    /\ Done("divide")
    /\ call.self = group_of(<<s1, s2, s3>>)
    /\ call.threshold = 1
    /\ Len(ret.value.shape.children) = 2

\* The number of entries of xs that are the intersection i
Count(xs, i) == Cardinality({k \in 1..Len(xs) : xs[k] = i})

\* C14: when the ray misses the box of the group, Group::intersects
\* returns no intersection and calls intersects on no child; otherwise it
\* calls it on every child and returns exactly the intersections of all
\* children, each as often as the children report it, in non-decreasing
\* order of t.
C14_GroupIntersects ==
    Done("intersects") =>
        LET children == call.self.shape.children
            xs == ret.value.xs
            reported(k) == Object_intersects_space(children[k], call.r)
            all == UNION {{reported(k)[n] : n \in 1..Len(reported(k))} :
                             k \in 1..Len(children)}
        IN  IF ~Bounds_intersects(Group_bounds(children), call.r)
            THEN xs = <<>> /\ ret.value.tested = <<>>
            ELSE /\ ret.value.tested = children
                 /\ IsSorted(xs)
                 /\ {xs[n] : n \in 1..Len(xs)} = all
                 /\ \A i \in all :
                       Count(xs, i) = Cardinality(UNION {
                           {<<k, n>> : n \in {n \in 1..Len(reported(k)) : reported(k)[n] = i}} :
                               k \in 1..Len(children)})

\* A ray that goes through two children out of their order: the sphere
\* in front is the second child.
C14_Witness ==
    /\ Done("intersects")
    /\ call.self = group_of(<<s0, s5>>)
    /\ call.r = Ray(<<0, 0, -6>>, <<0, 0, 1>>)
    /\ Len(ret.value.xs) = 4


-----------------------------------------------------------------------------
(* Transformations composed from Transformation::new_transform.  Angles    *)
(* are whole quarter turns, whose sine and cosine are taken as the exact   *)
(* 0, 1 and -1; the vectors of view_transform are parallel to an axis.     *)

MaxOps == 2

\* f64::cos and f64::sin of q quarter turns
cos(q) == <<0, -1, 0, 1>>[((q - 1) % 4) + 1]
sin(q) == <<1, 0, -1, 0>>[((q - 1) % 4) + 1]

rotation_x(self, rad) ==
    prepare_transform(Matrix_mul(
        <<<<1, 0, 0, 0>>, <<0, cos(rad), -sin(rad), 0>>,
          <<0, sin(rad), cos(rad), 0>>, <<0, 0, 0, 1>>>>, self.matrix))

rotation_y(self, rad) ==
    prepare_transform(Matrix_mul(
        <<<<cos(rad), 0, sin(rad), 0>>, <<0, 1, 0, 0>>,
          <<-sin(rad), 0, cos(rad), 0>>, <<0, 0, 0, 1>>>>, self.matrix))

rotation_z(self, rad) ==
    prepare_transform(Matrix_mul(
        <<<<cos(rad), -sin(rad), 0, 0>>, <<sin(rad), cos(rad), 0, 0>>,
          <<0, 0, 1, 0>>, <<0, 0, 0, 1>>>>, self.matrix))

reflect_x(self) == scaling(self, -1, 1, 1)
reflect_y(self) == scaling(self, 1, -1, 1)
reflect_z(self) == scaling(self, 1, 1, -1)

\* Transformation::shearing that keeps the inverses it was given
shearing_stale(self, xy, xz, yx, yz, zx, zy) ==
    [self EXCEPT !.matrix = Matrix_mul(
        <<<<1, xy, xz, 0>>, <<yx, 1, yz, 0>>, <<zx, zy, 1, 0>>, <<0, 0, 0, 1>>>>,
        self.matrix)]

shearing(self, xy, xz, yx, yz, zx, zy) ==
    prepare_transform(Matrix_mul(
        <<<<1, xy, xz, 0>>, <<yx, 1, yz, 0>>, <<zx, zy, 1, 0>>, <<0, 0, 0, 1>>>>,
        self.matrix))

\* Vector::magnitude of a vector parallel to an axis, and Vector::normalize
Vector_magnitude(v) == Abs(v[1]) + Abs(v[2]) + Abs(v[3])
Vector_normalize(v) == [i \in 1..3 |-> v[i] \div Vector_magnitude(v)]

\* impl Mul<Vector> for Vector: the cross product
Vector_mul(self, rhs) ==
    <<self[2] * rhs[3] - self[3] * rhs[2],
      self[3] * rhs[1] - self[1] * rhs[3],
      self[1] * rhs[2] - self[2] * rhs[1]>>

view_transform(from, to, up) ==
    LET forward == Vector_normalize([i \in 1..3 |-> to[i] - from[i]])
        up_normalized == Vector_normalize(up)
        left == Vector_mul(forward, up_normalized)
        true_up == Vector_mul(left, forward)
        orientation == <<<<left[1], left[2], left[3], 0>>,
                         <<true_up[1], true_up[2], true_up[3], 0>>,
                         <<-forward[1], -forward[2], -forward[3], 0>>,
                         <<0, 0, 0, 1>>>>
    IN  prepare_transform(Matrix_mul(
            orientation, translation(new_transform, -from[1], -from[2], -from[3]).matrix))

\* The default orientation, a look along z from a distance, a look along x
\* from an arbitrary point, and a look along its own up vector.
Views == {[from |-> <<0, 0, 0>>, to |-> <<0, 0, -1>>, up |-> <<0, 1, 0>>],
          [from |-> <<0, 0, 8>>, to |-> <<0, 0, 0>>, up |-> <<0, 2, 0>>],
          [from |-> <<1, 3, 2>>, to |-> <<4, 3, 2>>, up |-> <<0, 0, 1>>],
          [from |-> <<0, 0, 0>>, to |-> <<0, 2, 0>>, up |-> <<0, 1, 0>>]}

Turns == {1, 2}

InitTransformation ==
    /\ call = [op |-> "new_transform", n |-> 0]
    /\ ret = Returned(new_transform)
    /\ WorldIdle
    /\ RenderIdle

\* One more operation on the transformation built so far
Chained(op, t) ==
    /\ call.n < MaxOps
    /\ call' = [op |-> op, n |-> call.n + 1]
    /\ ret' = Returned(t)

Translation ==
    \E v \in {<<2, 0, 0>>, <<0, -2, 4>>} :
        Chained("translation", translation(ret.value, v[1], v[2], v[3]))

Scaling ==
    \E v \in {<<2, 2, 2>>, <<0, 1, 1>>} :
        Chained("scaling", scaling(ret.value, v[1], v[2], v[3]))

Reflect ==
    \/ Chained("reflect_x", reflect_x(ret.value))
    \/ Chained("reflect_y", reflect_y(ret.value))
    \/ Chained("reflect_z", reflect_z(ret.value))

RotationX == \E rad \in Turns : Chained("rotation_x", rotation_x(ret.value, rad))

RotationY == \E rad \in Turns : Chained("rotation_y", rotation_y(ret.value, rad))

RotationZ == \E rad \in Turns : Chained("rotation_z", rotation_z(ret.value, rad))

Shearing ==
    \E v \in {<<1, 0, 0, 0, 0, 0>>, <<0, 2, 0, 0, 1, 0>>} :
        Chained("shearing", shearing(ret.value, v[1], v[2], v[3], v[4], v[5], v[6]))

ViewTransform ==
    \E v \in Views : Chained("view_transform", view_transform(v.from, v.to, v.up))

ApplyTransform ==
    \E t \in Transforms : Chained("apply_transform", apply_transform(ret.value, t))

NextTransformation ==
    \/ Translation /\ UNCHANGED <<worldVars, renderVars>>
    \/ Scaling /\ UNCHANGED <<worldVars, renderVars>>
    \/ Reflect /\ UNCHANGED <<worldVars, renderVars>>
    \/ RotationX /\ UNCHANGED <<worldVars, renderVars>>
    \/ RotationY /\ UNCHANGED <<worldVars, renderVars>>
    \/ RotationZ /\ UNCHANGED <<worldVars, renderVars>>
    \/ Shearing /\ UNCHANGED <<worldVars, renderVars>>
    \/ ViewTransform /\ UNCHANGED <<worldVars, renderVars>>
    \/ ApplyTransform /\ UNCHANGED <<worldVars, renderVars>>

SpecTransformation == InitTransformation /\ [][NextTransformation]_vars

\* n times the identity matrix
Scalar(n) == [row \in 1..4 |-> [col \in 1..4 |-> IF row = col THEN n ELSE 0]]

\* C17: after new_transform and any sequence of operations, the cached
\* inverse is the inverse of the current matrix, none exactly when the
\* determinant of the matrix is 0, and the cached inverse_transposed is the
\* transpose of that inverse, none exactly when the inverse is none.
C17_CachedInverse ==
    LET t == ret.value
    IN  /\ (t.inverse = None) <=> (determinant(t.matrix) = 0)
        /\ (t.inverse_transposed = None) <=> (t.inverse = None)
        /\ t.inverse # None =>
              /\ t.inverse.den # 0
              /\ Matrix_mul(t.matrix, t.inverse.num) = Scalar(t.inverse.den)
              /\ Matrix_mul(t.inverse.num, t.matrix) = Scalar(t.inverse.den)
              /\ t.inverse_transposed.num = transpose(t.inverse.num)
              /\ t.inverse_transposed.den = t.inverse.den

\* A chain of MaxOps operations that ends in a shear and whose matrix is
\* invertible with a determinant other than 1
C17_Witness ==
    /\ call.op = "shearing"
    /\ call.n = MaxOps
    /\ ret.value.inverse # None
    /\ ret.value.inverse.den # 1


-----------------------------------------------------------------------------
(* The octree over the registry of objects (octree.rs).  An id is the      *)
(* position of its object in the registry.  Regions and boxes are in whole *)
(* units, where a dimension is at most MIN_SIZE (0.001) exactly when it is *)
(* at most 0; every region that is split has even dimensions.              *)

MAX_SIZE == 1024
MIN_SIZE == 0

\* impl Default for Octree
Octree_default ==
    [region |-> Bounds_new(<<-MAX_SIZE, -MAX_SIZE, -MAX_SIZE>>,
                           <<MAX_SIZE, MAX_SIZE, MAX_SIZE>>),
     objects |-> <<>>,
     children |-> [idx \in 1..8 |-> None]]

with_region(self, region) == [self EXCEPT !.region = region]
with_objects(self, objects) == [self EXCEPT !.objects = objects]

has_children(self) == \E idx \in 1..8 : self.children[idx] # None

\* The eight octants of a region, in the order of the array of build
Octants(region) ==
    LET min == region.min
        max == region.max
        dimensions == [i \in 1..3 |-> max[i] - min[i]]
        half == [i \in 1..3 |-> dimensions[i] \div 2]
        center == [i \in 1..3 |-> min[i] + half[i]]
    IN  <<Bounds_new(min, center),
          Bounds_new(<<center[1], min[2], min[3]>>, <<max[1], center[2], center[3]>>),
          Bounds_new(<<center[1], min[2], center[3]>>, <<max[1], center[2], max[3]>>),
          Bounds_new(<<min[1], min[2], center[3]>>, <<center[1], center[2], max[3]>>),
          Bounds_new(<<min[1], center[2], min[3]>>, <<center[1], max[2], center[3]>>),
          Bounds_new(<<center[1], center[2], min[3]>>, <<max[1], max[2], center[3]>>),
          Bounds_new(center, max),
          Bounds_new(<<min[1], center[2], center[3]>>, <<center[1], max[2], max[3]>>)>>

\* The test of build on one object and one octant: no group, a box without
\* an infinite side, and the octant contains the box
Pushed(obj, octant) ==
    /\ obj.shape.kind # "Group"
    /\ \A i \in 1..3 : flt(NEG_INFINITY, obj.bounds.min[i]) /\ flt(obj.bounds.max[i], INFINITY)
    /\ Bounds_contains(octant, obj.bounds)

RECURSIVE Octree_build(_, _)
Octree_build(self, registry) ==
    LET dimensions == [i \in 1..3 |-> self.region.max[i] - self.region.min[i]]
        octants == Octants(self.region)
        oct_vecs == [idx \in 1..8 |->
                        SelectSeq(self.objects, LAMBDA id : Pushed(registry[id], octants[idx]))]
        to_remove == {id \in {self.objects[k] : k \in 1..Len(self.objects)} : \E idx \in 1..8 : Pushed(registry[id], octants[idx])}
    IN  IF Len(self.objects) = 1
        THEN None
        ELSE IF \A i \in 1..3 : dimensions[i] <= MIN_SIZE
        THEN None
        ELSE [region |-> self.region,
              objects |-> SelectSeq(self.objects, LAMBDA id : id \notin to_remove),
              children |-> [idx \in 1..8 |->
                  IF Len(oct_vecs[idx]) = 0
                  THEN None
                  ELSE Octree_build(
                           with_objects(with_region(Octree_default, octants[idx]),
                                        oct_vecs[idx]), registry)]]

\* Octree::intersects, with the ids it has tested and the regions of the
\* children it has descended into next to the intersections it returns
RECURSIVE Octree_intersects(_, _, _)
Octree_intersects(self, r, registry) ==
    LET nothing == [xs |-> <<>>, tested |-> <<>>, visited |-> <<>>]
        own[k \in 0..Len(self.objects)] ==
            IF k = 0 THEN nothing
            ELSE IF registry[self.objects[k]].shape.kind = "Group" THEN own[k - 1]
            ELSE [own[k - 1] EXCEPT
                     !.xs = @ \o Object_intersects_space(registry[self.objects[k]], r),
                     !.tested = Append(@, self.objects[k])]
        all[idx \in 0..8] ==
            IF idx = 0 THEN own[Len(self.objects)]
            ELSE IF self.children[idx] = None THEN all[idx - 1]
            ELSE LET child == Octree_intersects(self.children[idx], r, registry)
                 IN  [xs |-> all[idx - 1].xs \o child.xs,
                      tested |-> all[idx - 1].tested \o child.tested,
                      visited |-> all[idx - 1].visited \o <<self.children[idx].region>>
                                      \o child.visited]
    IN  IF Len(self.objects) = 0 /\ ~has_children(self) THEN nothing ELSE all[8]

MaxObjects == 3

\* The registry: the sphere at the origin and s4, which lie across the
\* planes that halve every region around the origin; two spheres that lie
\* across the planes that halve the region (0,0,0)..(4,4,4); two spheres
\* that fit octants of their own; a group.
REGISTRY ==
    <<s0, s4,
      build(with_transform(new_sphere, translation(new_transform, 2, 2, 2))),
      build(with_transform(new_sphere, translation(new_transform, 2, 2, 1))),
      build(with_transform(new_sphere, translation(new_transform, 1, 1, 1))),
      build(with_transform(new_sphere, translation(new_transform, 5, 5, 5))),
      group_of(<<s1, s2>>)>>

\* The default region, a smaller one and a single point
Regions == {Octree_default.region, Bounds_new(<<0, 0, 0>>, <<8, 8, 8>>),
            Bounds_new(<<2, 2, 2>>, <<2, 2, 2>>)}

InitOctree ==
    /\ \E region \in Regions, objects \in Seqs(1..Len(REGISTRY), MaxObjects) :
          /\ \A i, j \in 1..Len(objects) : i # j => objects[i] # objects[j]
          /\ call = [op |-> "build",
                     self |-> with_objects(with_region(Octree_default, region), objects)]
    /\ ret = Pending
    /\ WorldIdle
    /\ RenderIdle

OctreeBuild ==
    /\ call.op = "build"
    /\ ret = Pending
    /\ ret' = Returned(Octree_build(call.self, REGISTRY))
    /\ UNCHANGED call

OctreeIntersects ==
    /\ Done("build")
    /\ ret.value # None
    /\ \E r \in Rays :
          /\ call' = [op |-> "intersects", self |-> ret.value, r |-> r]
          /\ ret' = Returned(Octree_intersects(ret.value, r, REGISTRY))

NextOctree ==
    \/ OctreeBuild /\ UNCHANGED <<worldVars, renderVars>>
    \/ OctreeIntersects /\ UNCHANGED <<worldVars, renderVars>>

SpecOctree == InitOctree /\ [][NextOctree]_vars

\* The ids stored in a tree, at any depth
RECURSIVE Stored(_)
Stored(tree) ==
    IF tree = None
    THEN {}
    ELSE {tree.objects[k] : k \in 1..Len(tree.objects)}
             \cup UNION {Stored(tree.children[idx]) : idx \in 1..8}

\* C18: build stores every id it was handed: an id sits in a child octant
\* only if the region of that octant contains the box of its object, an id
\* whose object no octant contains stays in the list of the node itself,
\* and no id is dropped.
C18_NoIdDropped ==
    Done("build") =>
        \A k \in 1..Len(call.self.objects) :
            LET id == call.self.objects[k]
                octants == Octants(call.self.region)
            IN  /\ id \in Stored(ret.value)
                /\ ret.value # None =>
                      /\ \A idx \in 1..8 :
                            id \in Stored(ret.value.children[idx]) =>
                                Bounds_contains(octants[idx], REGISTRY[id].bounds)
                      /\ (\A idx \in 1..8 : ~Bounds_contains(octants[idx], REGISTRY[id].bounds))
                            => \E j \in 1..Len(ret.value.objects) : ret.value.objects[j] = id

\* C19: intersects descends only into children whose region the ray
\* intersects: the region of every child it has visited is hit by the ray.
C19_OnlyHitOctants ==
    Done("intersects") =>
        \A k \in 1..Len(ret.value.visited) :
            Bounds_intersects(ret.value.visited[k], call.r)


(***************************************************************************)
(* OBJ files (obj_parser.rs).  A file is a list of elements: vertices,     *)
(* vertex normals, a group name and faces of FaceInfo triples.  Points and *)
(* vectors are kept as names; the lookups are 1-based and take a usize.    *)
(***************************************************************************)
MaxVertices == 2
MaxIdx == 4

Some(v) == [some |-> v]
Ok(v) == [ok |-> v]
ObjectNotFound(what, idx) == [err |-> <<what, idx>>]

\* `v[idx - 1]` for a usize idx and a Vec v.  At idx = 0 the subtraction
\* overflows: a build with overflow checks panics there, a build without
\* them wraps to usize::MAX, which is past the end of every Vec, and the
\* index panics.
Vec_index(v, idx) ==
    IF idx = 0 THEN Panic
    ELSE IF idx - 1 < Len(v) THEN Ok(v[idx])
    ELSE Panic

Face_get_vertex(self, idx) ==
    IF idx > Len(self.vertices) THEN ObjectNotFound("Vertex", idx)
    ELSE Vec_index(self.vertices, idx)

Face_get_normal(self, idx) ==
    IF idx > Len(self.vertices) THEN ObjectNotFound("Normal", idx)
    ELSE Vec_index(self.normals, idx)

OBJParser_get_vertex(self, idx) ==
    IF idx > Len(self.vertices) THEN ObjectNotFound("Vertex", idx)
    ELSE Vec_index(self.vertices, idx)

get_face(self, idx) ==
    IF idx > Len(self.faces) THEN ObjectNotFound("Face", idx)
    ELSE Vec_index(self.faces, idx)

OBJParser_get_normal(self, idx) ==
    IF idx > Len(self.normals) THEN ObjectNotFound("Normal", idx)
    ELSE Vec_index(self.normals, idx)

\* The indexed elements of `from` named by the Some entries of `indices`, in
\* order; Panic when one of the indexings panics.
pushed_all(from, indices) ==
    LET some == SelectSeq(indices, LAMBDA i : i # None)
    IN  IF \E k \in 1..Len(some) : Vec_index(from, some[k].some) = Panic THEN Panic
        ELSE Ok([k \in 1..Len(some) |-> from[some[k].some]])

\* One window of a face line: the triangle of p1 and two neighbouring
\* FaceInfo entries.
parse_window(vertices, normals, current_group, fv) ==
    LET vs == pushed_all(vertices, [k \in 1..3 |-> Some(fv[k].vertex_index)])
        ns == pushed_all(normals, [k \in 1..3 |-> fv[k].vertex_normal_index])
        ts == SelectSeq([k \in 1..3 |-> fv[k].texture_vertex_index], LAMBDA t : t # None)
    IN  IF vs = Panic \/ ns = Panic THEN Panic
        ELSE [group |-> current_group, vertices |-> vs.ok, normals |-> ns.ok,
              textures |-> [k \in 1..Len(ts) |-> ts[k].some]]

RECURSIVE parse_from(_, _, _)
parse_from(input, n, acc) ==
    IF acc = Panic \/ n > Len(input) THEN acc
    ELSE LET line == input[n]
             face(f) == IF f = Panic THEN Panic ELSE [acc EXCEPT !.faces = Append(@, f)]
         IN  parse_from(input, n + 1,
                 CASE line.kind = "v" -> [acc EXCEPT !.vertices = Append(@, line.p)]
                   [] line.kind = "vn" -> [acc EXCEPT !.normals = Append(@, line.vn)]
                   [] line.kind = "g" -> [acc EXCEPT !.current_group = Some(line.name)]
                   [] line.kind = "f" ->
                        face(parse_window(acc.vertices, acc.normals, acc.current_group, line.fv))
                   [] OTHER -> [acc EXCEPT !.lines_skipped = @ + 1])

parse(input) ==
    parse_from(input, 1, [lines_skipped |-> 0, vertices |-> <<>>, faces |-> <<>>,
                          current_group |-> None, normals |-> <<>>])

\* The triangle into_group builds of one face; every lookup is unwrapped.
face_triangle(f) ==
    LET ps == [k \in 1..3 |-> Face_get_vertex(f, k)]
        ns == [k \in 1..3 |-> Face_get_normal(f, k)]
        unwrapped(rs) == \A k \in 1..3 : "ok" \in DOMAIN rs[k]
    IN  IF ~unwrapped(ps) THEN Panic
        ELSE IF f.normals = <<>> THEN [shape |-> "Triangle", p |-> [k \in 1..3 |-> ps[k].ok]]
        ELSE IF ~unwrapped(ns) THEN Panic
        ELSE [shape |-> "SmoothTriangle", p |-> [k \in 1..3 |-> ps[k].ok],
              n |-> [k \in 1..3 |-> ns[k].ok]]

into_group(self) ==
    LET named == {self.faces[k].group : k \in 1..Len(self.faces)} \ {None}
        of_group(name) == SelectSeq(self.faces, LAMBDA f : f.group = name)
        triangles(faces) == [k \in 1..Len(faces) |-> face_triangle(faces[k])]
        default_group == triangles(of_group(None))
    IN  IF \E k \in 1..Len(self.faces) : face_triangle(self.faces[k]) = Panic THEN Panic
        ELSE [children |-> default_group,
              groups |-> [name \in named |-> [children |-> triangles(of_group(name))]]]

Points == {"pA", "pB"}
Vectors == {"nA", "nB"}
FaceInfos ==
    [vertex_index : 1..MaxVertices, texture_vertex_index : {None},
     vertex_normal_index : {None, Some(1)}]

InitOBJ ==
    /\ \E vs \in Seqs(Points, MaxVertices), ns \in Seqs(Vectors, MaxVertices),
          names \in Seqs({"g"}, 1), fs \in Seqs([1..3 -> FaceInfos], 1) :
          call = [op |-> "parse",
                  input |-> [k \in 1..Len(vs) |-> [kind |-> "v", p |-> vs[k]]]
                            \o [k \in 1..Len(ns) |-> [kind |-> "vn", vn |-> ns[k]]]
                            \o [k \in 1..Len(names) |-> [kind |-> "g", name |-> names[k]]]
                            \o [k \in 1..Len(fs) |-> [kind |-> "f", fv |-> fs[k]]]]
    /\ ret = Pending
    /\ WorldIdle
    /\ RenderIdle

Parse ==
    /\ call.op = "parse"
    /\ ret = Pending
    /\ ret' = (IF parse(call.input) = Panic THEN Panic ELSE Returned(parse(call.input)))
    /\ UNCHANGED call

Parsed == call.op = "parse" /\ ret # Pending /\ ret # Panic

GetVertex ==
    /\ Parsed
    /\ \E idx \in 0..MaxIdx :
          /\ call' = [op |-> "get_vertex", self |-> ret.value, idx |-> idx]
          /\ ret' = OBJParser_get_vertex(ret.value, idx)

GetNormal ==
    /\ Parsed
    /\ \E idx \in 0..MaxIdx :
          /\ call' = [op |-> "get_normal", self |-> ret.value, idx |-> idx]
          /\ ret' = OBJParser_get_normal(ret.value, idx)

GetFace ==
    /\ Parsed
    /\ \E idx \in 0..MaxIdx :
          /\ call' = [op |-> "get_face", self |-> ret.value, idx |-> idx]
          /\ ret' = get_face(ret.value, idx)

FaceGetVertex ==
    /\ call.op = "get_face"
    /\ "ok" \in DOMAIN ret
    /\ \E idx \in 0..MaxIdx :
          /\ call' = [op |-> "Face::get_vertex", self |-> ret.ok, idx |-> idx]
          /\ ret' = Face_get_vertex(ret.ok, idx)

FaceGetNormal ==
    /\ call.op = "get_face"
    /\ "ok" \in DOMAIN ret
    /\ \E idx \in 0..MaxIdx :
          /\ call' = [op |-> "Face::get_normal", self |-> ret.ok, idx |-> idx]
          /\ ret' = Face_get_normal(ret.ok, idx)

IntoGroup ==
    /\ Parsed
    /\ call' = [op |-> "into_group", self |-> ret.value]
    /\ ret' = (IF into_group(ret.value) = Panic THEN Panic ELSE Returned(into_group(ret.value)))

NextOBJ ==
    \/ Parse /\ UNCHANGED <<worldVars, renderVars>>
    \/ GetVertex /\ UNCHANGED <<worldVars, renderVars>>
    \/ GetNormal /\ UNCHANGED <<worldVars, renderVars>>
    \/ GetFace /\ UNCHANGED <<worldVars, renderVars>>
    \/ FaceGetVertex /\ UNCHANGED <<worldVars, renderVars>>
    \/ FaceGetNormal /\ UNCHANGED <<worldVars, renderVars>>
    \/ IntoGroup /\ UNCHANGED <<worldVars, renderVars>>

SpecOBJ == InitOBJ /\ [][NextOBJ]_vars

\* The Vec a lookup reads, and the number of elements the claim counts.
Looked(c) ==
    CASE c.op \in {"get_vertex", "Face::get_vertex"} -> c.self.vertices
      [] c.op \in {"get_normal", "Face::get_normal"} -> c.self.normals
      [] c.op = "get_face" -> c.self.faces

Lookups == {"get_vertex", "get_normal", "get_face", "Face::get_vertex", "Face::get_normal"}

\* C30: a 1-based lookup returns the stored element exactly when
\* 1 <= idx <= count, and ObjectNotFound, never a panic, for every other
\* index: idx = 0 and, for Face::get_normal, an index above the number of
\* normals of the face included.
C30_LookupNeverPanics ==
    call.op \in Lookups =>
        IF 1 <= call.idx /\ call.idx <= Len(Looked(call))
        THEN ret = Ok(Looked(call)[call.idx])
        ELSE "err" \in DOMAIN ret


(***************************************************************************)
(* CSG::intersects on trees of objects along the axis.  A CSG object       *)
(* carries its node in the field csg and hands the ray on as it is.        *)
(***************************************************************************)
new_csg(kind, left, right) ==
    [shape |-> "CSG", translation |-> 0, scaling |-> 1,
     material |-> Material, csg |-> CSG(kind, left, right)]

RECURSIVE CSG_intersects(_, _, _)

\* Object::intersects where the shape may be a CSG node, which gets the ray
\* as it is: the outcomes, one for every order the unstable sorts may leave
\* equal t in.
Object_intersects_csg(object, r) ==
    IF "csg" \in DOMAIN object
    THEN CSG_intersects(object.csg, object, r)
    ELSE {Object_intersects(object, r)}

\* CSG::intersects that returns hits on the CSG object itself
CSG_intersects_own(self, object, ray) ==
    LET own(xs) == [k \in 1..Len(xs) |-> Intersection(xs[k].t, object)]
        filtered(xs) == {own(filter_intersections(self, sorted)) :
                            sorted \in sort_unstable_by(xs, DOMAIN xs)}
    IN  UNION {filtered(left_xs \o right_xs) :
                  left_xs \in Object_intersects_csg(self.left, ray),
                  right_xs \in Object_intersects_csg(self.right, ray)}

CSG_intersects(self, object, ray) ==
    LET filtered(xs) == {filter_intersections(self, sorted) :
                            sorted \in sort_unstable_by(xs, DOMAIN xs)}
    IN  UNION {filtered(left_xs \o right_xs) :
                  left_xs \in Object_intersects_csg(self.left, ray),
                  right_xs \in Object_intersects_csg(self.right, ray)}

\* Shape::normal_at behind Object::normal_at: CSG::normal_at is todo!()
Object_normal_at_csg(object, world_point) ==
    IF "csg" \in DOMAIN object THEN Panic
    ELSE Returned(Object_normal_at(object, world_point))

P == Object("Plane", 4, 1, Material)
Leaves == {A, B, C, P}
Inner == {new_csg(kind, A, B) : kind \in CSGKind}
CSGRays == {Ray(origin, direction) : origin \in {-30, 0}, direction \in {-1, 1}}

InitCSG ==
    /\ \E kind \in CSGKind, left \in Leaves \cup Inner, right \in Leaves \cup Inner,
          ray \in CSGRays :
          call = [op |-> "intersects", self |-> new_csg(kind, left, right), r |-> ray]
    /\ ret = Pending
    /\ WorldIdle
    /\ RenderIdle

CSGIntersects ==
    /\ call.op = "intersects"
    /\ ret = Pending
    /\ \E xs \in Object_intersects_csg(call.self, call.r) : ret' = Returned(xs)
    /\ UNCHANGED call

\* prepare_computations on one of the returned hits asks its object for
\* the normal
CSGNormalAt ==
    /\ Done("intersects")
    /\ \E k \in 1..Len(ret.value) :
          /\ call' = [op |-> "normal_at", self |-> call.self, r |-> call.r,
                      hit |-> ret.value[k]]
          /\ ret' = Object_normal_at_csg(ret.value[k].object,
                                         Ray_position(call.r, ret.value[k].t))

NextCSG ==
    \/ CSGIntersects /\ UNCHANGED <<worldVars, renderVars>>
    \/ CSGNormalAt /\ UNCHANGED <<worldVars, renderVars>>

SpecCSG == InitCSG /\ [][NextCSG]_vars

Range(s) == {s[k] : k \in DOMAIN s}

\* The hits the two children of the CSG object return for the ray it hands
\* them, over every outcome.
ChildHits(object, r) ==
    UNION {Range(xs) : xs \in Object_intersects_csg(object.csg.left, r)
                              \cup Object_intersects_csg(object.csg.right, r)}

\* C21: every intersection CSG::intersects returns is one its left or right
\* child returned, with the object reference unchanged: it names the leaf
\* that was hit, never a CSG node, so that CSG::normal_at is never called
\* for a hit that came from intersecting a CSG.
C21_LeafHits ==
    /\ Done("intersects") =>
          \A k \in 1..Len(ret.value) :
             /\ ret.value[k] \in ChildHits(call.self, call.r)
             /\ "csg" \notin DOMAIN ret.value[k].object
    /\ call.op = "normal_at" => ret # Panic

C21_Witness ==
    /\ call.op = "normal_at"
    /\ "csg" \in DOMAIN call.self.csg.left
    /\ includes(call.self.csg.left, call.hit.object)
    /\ call.hit.object = B
    /\ ret # Panic


(***************************************************************************)
(* PPM output (ppm.rs, colo-rs/src/colors.rs).  A String is a sequence of  *)
(* one-character strings; a Color has three components in hundredths.      *)
(***************************************************************************)
MaxWidth == 12

Color_new(r, g, b) == [r |-> r, g |-> g, b |-> b]

\* f64::clamp
clamp(x, min, max) == IF x < min THEN min ELSE IF x > max THEN max ELSE x

\* One component of as_255_string: times 255, clamped to 0..255, rounded
\* half away from zero
as_255(c) == (clamp(c * 255, 0, 255 * One) + One \div 2) \div One

\* format!("{}", x) for a whole number x >= 0
RECURSIVE format(_)
format(x) ==
    LET digit == <<"0", "1", "2", "3", "4", "5", "6", "7", "8", "9">>[(x % 10) + 1]
    IN  IF x < 10 THEN <<digit>> ELSE format(x \div 10) \o <<digit>>

as_255_string(self) ==
    format(as_255(self.r)) \o <<" ">> \o format(as_255(self.g)) \o <<" ">>
        \o format(as_255(self.b))

\* str::split(' '): the pieces between the blanks
str_split(s) ==
    LET blanks == <<0>> \o SelectSeq([k \in 1..Len(s) |-> IF s[k] = " " THEN k ELSE 0],
                                     LAMBDA k : k # 0) \o <<Len(s) + 1>>
    IN  [n \in 1..(Len(blanks) - 1) |-> SubSeq(s, blanks[n] + 1, blanks[n + 1] - 1)]

\* str::trim: without the white space at both ends
trim(s) ==
    LET inked == {k \in 1..Len(s) : s[k] \notin {" ", "\n"}}
        first == CHOOSE k \in inked : \A j \in inked : k <= j
        final == CHOOSE k \in inked : \A j \in inked : j <= k
    IN  IF inked = {} THEN <<>> ELSE SubSeq(s, first, final)

\* [String]::join("\n")
join(strings) ==
    LET joined[k \in 0..Len(strings)] ==
            IF k = 0 THEN <<>>
            ELSE IF k = 1 THEN strings[1]
            ELSE joined[k - 1] \o <<"\n">> \o strings[k]
    IN  joined[Len(strings)]

\* The body of the inner for_each for one component `sub`.  The usize
\* subtraction below zero panics in a build with overflow checks and wraps
\* to a number above 70 in a build without them.
push_sub(st, sub, overflow_checks) ==
    LET broken(over) ==
            IF over < 0 /\ overflow_checks THEN Panic
            ELSE IF over < 0 \/ over > 70
            THEN [st EXCEPT !.seventies_to_subtract = @ + 1,
                            !.string = trim(@) \o <<"\n">> \o sub \o <<" ">>]
            ELSE [st EXCEPT !.string = @ \o sub \o <<" ">>]
    IN  IF st = Panic THEN Panic
        ELSE broken(Len(st.string) + Len(sub) - st.seventies_to_subtract * 70)

\* The body of the outer for_each for one colour string s
push_color(st, s, width, overflow_checks) ==
    LET subs == str_split(s)
        pushed[n \in 0..Len(subs)] ==
            IF n = 0 THEN st ELSE push_sub(pushed[n - 1], subs[n], overflow_checks)
        counted(after) ==
            IF after = Panic THEN Panic
            ELSE IF after.count + 1 = width
            THEN [as_string |-> Append(after.as_string, trim(after.string)),
                  string |-> <<>>, count |-> 0, seventies_to_subtract |-> 0]
            ELSE [after EXCEPT !.count = @ + 1]
    IN  counted(pushed[Len(subs)])

\* The outer for_each over the colours at positions lo..hi, taken in order.
\* The range is halved and the first half is worked out before the second
\* is entered, which keeps the evaluation shallow.
RECURSIVE for_each(_, _, _, _, _)
for_each(st, self, lo, hi, overflow_checks) ==
    IF lo > hi THEN st
    ELSE IF lo = hi
    THEN push_color(st, as_255_string(self.data[lo]), self.width, overflow_checks)
    ELSE CHOOSE after \in
             {for_each(half, self, (lo + hi) \div 2 + 1, hi, overflow_checks) :
                 half \in {for_each(st, self, lo, (lo + hi) \div 2, overflow_checks)}} :
             TRUE

PixelData_to_string(self, overflow_checks) ==
    LET joined(st) == IF st = Panic THEN Panic ELSE Returned(join(st.as_string))
    IN  joined(for_each([as_string |-> <<>>, string |-> <<>>, count |-> 0,
                         seventies_to_subtract |-> 0],
                        self, 1, Len(self.data), overflow_checks))

Header_to_string(self) ==
    self.version \o <<"\n">> \o format(self.width) \o <<" ">> \o format(self.height)
        \o <<"\n">> \o format(self.max_color) \o <<"\n">>

PPM_to_string(self, overflow_checks) ==
    LET pushed(data) ==
            IF data = Panic THEN Panic
            ELSE Returned(Header_to_string(self.header) \o data.value \o <<"\n">>)
    IN  pushed(PixelData_to_string(self.pixel_data, overflow_checks))

\* impl From<Canvas> for PPM
PPM_from(canvas) ==
    [header |-> [version |-> <<"P", "3">>, width |-> canvas.width,
                 height |-> canvas.height, max_color |-> 255],
     pixel_data |-> [width |-> canvas.width, data |-> canvas.pixels]]

Palette ==
    {Color_new(One, 80, 60), Color_new(0, 0, 0), Color_new(-50, 0, One),
     Color_new(0, 50, 0), Color_new(150, 4, 20)}

\* Canvases written with two colours in turn
InitPPM ==
    /\ \E width \in 1..MaxWidth, height \in 1..MaxSize, c1 \in Palette, c2 \in Palette,
          overflow_checks \in BOOLEAN :
          call = [op |-> "from", overflow_checks |-> overflow_checks,
                  canvas |-> [width |-> width, height |-> height,
                              pixels |-> [i \in 1..(width * height) |->
                                             IF i % 2 = 1 THEN c1 ELSE c2]]]
    /\ ret = Pending
    /\ WorldIdle
    /\ RenderIdle

From ==
    /\ call.op = "from"
    /\ ret = Pending
    /\ ret' = Returned(PPM_from(call.canvas))
    /\ UNCHANGED call

PixelDataToString ==
    /\ Done("from")
    /\ call' = [op |-> "PixelData::to_string", overflow_checks |-> call.overflow_checks,
                self |-> ret.value.pixel_data]
    /\ ret' = PixelData_to_string(ret.value.pixel_data, call.overflow_checks)

PPMToString ==
    /\ Done("from")
    /\ call' = [op |-> "PPM::to_string", overflow_checks |-> call.overflow_checks,
                self |-> ret.value]
    /\ ret' = PPM_to_string(ret.value, call.overflow_checks)

NextPPM ==
    \/ From /\ UNCHANGED <<worldVars, renderVars>>
    \/ PixelDataToString /\ UNCHANGED <<worldVars, renderVars>>
    \/ PPMToString /\ UNCHANGED <<worldVars, renderVars>>

SpecPPM == InitPPM /\ [][NextPPM]_vars

\* The lengths of the lines of a String
LineLengths(s) ==
    LET ends == <<0>> \o SelectSeq([k \in 1..Len(s) |-> IF s[k] = "\n" THEN k ELSE 0],
                                   LAMBDA k : k # 0) \o <<Len(s) + 1>>
    IN  [n \in 1..(Len(ends) - 1) |-> ends[n + 1] - ends[n] - 1]

\* C22: PixelData::to_string writes no line longer than 70 characters,
\* whatever the width of the canvas and the pixels: a line is broken between
\* two components before it would pass 70.
C22_LineLength ==
    call.op = "PixelData::to_string" /\ ret # Panic =>
        \A n \in DOMAIN LineLengths(ret.value) : LineLengths(ret.value)[n] <= 70


(***************************************************************************)
(* Bounds::split, and Bounds::contains asked of the two halves             *)
(***************************************************************************)
\* Boxes of no extent: a point each
Probes == {Bounds_new(<<x, y, z>>, <<x, y, z>>) : x \in -4..4, y \in {-2, 1, 4}, z \in {-2, 0, 1}}

InitSplit ==
    /\ \E self \in Boxes : call = [op |-> "split", self |-> self]
    /\ ret = Pending
    /\ WorldIdle
    /\ RenderIdle

Split ==
    /\ call.op = "split"
    /\ ret = Pending
    /\ ret' = Returned(split(call.self))
    /\ UNCHANGED call

Contains ==
    /\ Done("split")
    /\ \E other \in Probes \cup Boxes :
          /\ call' = [op |-> "contains", self |-> call.self, halves |-> ret.value,
                      other |-> other]
          /\ ret' = Returned([whole |-> Bounds_contains(call.self, other),
                              left |-> Bounds_contains(ret.value.left, other),
                              right |-> Bounds_contains(ret.value.right, other)])

NextSplit ==
    \/ Split /\ UNCHANGED <<worldVars, renderVars>>
    \/ Contains /\ UNCHANGED <<worldVars, renderVars>>

SpecSplit == InitSplit /\ [][NextSplit]_vars

\* C24: split cuts the box at the midpoint of its largest extent into two
\* halves that share the midpoint plane only: a point is in the box exactly
\* when it is in one of the halves, and no point, a box of no extent on the
\* midpoint plane included, is contained in both.
C24_HalvesDisjoint ==
    call.op = "contains" /\ call.other \in Probes =>
        /\ ret.value.whole <=> (ret.value.left \/ ret.value.right)
        /\ ~(ret.value.left /\ ret.value.right)


(***************************************************************************)
(* Group::partition_children on its own                                    *)
(***************************************************************************)
\* Spheres scaled to nothing: their boxes are the points (0,0,0) and
\* (-2,-2,0).
p0 == build(with_transform(new_sphere, scaling(new_transform, 0, 0, 0)))
p1 == build(with_transform(new_sphere,
                           translation(scaling(new_transform, 0, 0, 0), -2, -2, 0)))

InitPartition ==
    /\ \E children \in Seqs({s1, s2, s3, s4, p0, p1}, MaxChildren) :
          /\ \A i, j \in 1..Len(children) : i # j => children[i] # children[j]
          /\ call = [op |-> "partition_children", self |-> group_of(children)]
    /\ ret = Pending
    /\ WorldIdle
    /\ RenderIdle

\* The call returns (left, right) and leaves to_keep as the children of the
\* group, which is returned as self.
PartitionChildren ==
    /\ call.op = "partition_children"
    /\ ret = Pending
    /\ \E parts \in {partition_children(call.self.shape.children)} :
          ret' = Returned([left |-> parts.left, right |-> parts.right,
                           self |-> [call.self EXCEPT !.shape.children = parts.to_keep]])
    /\ UNCHANGED call

NextPartition ==
    \/ PartitionChildren /\ UNCHANGED <<worldVars, renderVars>>

SpecPartition == InitPartition /\ [][NextPartition]_vars

\* C23: partition_children splits the box of the group with Bounds::split
\* and puts every child in exactly one of three lists, each in the order of
\* the children: left when the left half contains its box, else right when
\* the right half does, else it stays; the children of the group are then
\* those that went to neither half.
C23_Partition ==
    Done("partition_children") =>
        LET children == call.self.shape.children
            halves == split(Group_bounds(children))
            InLeft(c) == Bounds_contains(halves.left, c.bounds)
            InRight(c) == ~InLeft(c) /\ Bounds_contains(halves.right, c.bounds)
            InNeither(c) == ~InLeft(c) /\ ~Bounds_contains(halves.right, c.bounds)
            lists == <<ret.value.left, ret.value.right, ret.value.self.shape.children>>
        IN  /\ lists[1] = SelectSeq(children, InLeft)
            /\ lists[2] = SelectSeq(children, InRight)
            /\ lists[3] = SelectSeq(children, InNeither)
            /\ \A k \in 1..Len(children) :
                  Cardinality({n \in 1..3 : \E i \in DOMAIN lists[n] :
                                               lists[n][i] = children[k]}) = 1

\* p0 lies on the midpoint plane of the box of the group and goes left
\* with s1, s4 goes right and nothing stays.
C23_Witness ==
    /\ Done("partition_children")
    /\ call.self.shape.children = <<s4, p0, s1>>
    /\ ret.value.left = <<p0, s1>>
    /\ ret.value.right = <<s4>>
    /\ ret.value.self.shape.children = <<>>


(***************************************************************************)
(* Object::divide call by call: one frame for every Group::divide that has *)
(* been entered and has not returned.                                      *)
(***************************************************************************)
\* The first half of Group::divide without the subgroup of the right list
partitioned_left_only(children, threshold) ==
    IF threshold <= Len(children)
    THEN CHOOSE after \in {IF parts.left # <<>>
                           THEN make_subgroup(parts.to_keep, parts.left)
                           ELSE parts.to_keep :
                              parts \in {partition_children(children)}} : TRUE
    ELSE children

\* The children of a group after the first half of Group::divide: the
\* partition and the two make_subgroup calls
partitioned(children, threshold) ==
    LET with_left(parts) == IF parts.left # <<>>
                            THEN make_subgroup(parts.to_keep, parts.left)
                            ELSE parts.to_keep
        with_right(parts) == IF parts.right # <<>>
                             THEN make_subgroup(with_left(parts), parts.right)
                             ELSE with_left(parts)
    IN  IF threshold <= Len(children)
        THEN CHOOSE after \in {with_right(parts) :
                                  parts \in {partition_children(children)}} : TRUE
        ELSE children

\* The frame of Group::divide on the children of `self`, about to enter the
\* loop over the children
Frame(self, threshold) ==
    [self |-> self, children |-> partitioned(self.shape.children, threshold), k |-> 1]

\* The recursion has used up the stack of the thread: the process aborts.
StackOverflow == [overflow |-> TRUE]

g4 == build(with_material(with_transform(new_sphere, translation(new_transform, 2, 0, 0)),
                          glass))
q0 == build(with_material(with_transform(new_sphere, scaling(new_transform, 0, 0, 0)),
                          glass))

\* Lists of different objects: spheres, one of glass, and two spheres
\* scaled to the same point; and the same lists with a group as one more
\* child.
DivideLists ==
    LET flat == {l \in Seqs({s1, s3, g4, p0, q0}, MaxChildren) :
                    \A i, j \in 1..Len(l) : i # j => l[i] # l[j]}
    IN  flat \cup {<<group_of(<<s1, g4>>)>> \o l : l \in {f \in flat : Len(f) < MaxChildren}}

InitDivide ==
    /\ \E children \in DivideLists, threshold \in 1..MaxThreshold :
          call = [op |-> "divide", self |-> group_of(children), threshold |-> threshold,
                  frames |-> <<>>]
    /\ ret = Pending
    /\ WorldIdle
    /\ RenderIdle

\* Object::divide on the group enters Group::divide
DivideEnter ==
    /\ call.op = "divide"
    /\ ret = Pending
    /\ call.frames = <<>>
    /\ \E entered \in {Frame(call.self, call.threshold)} :
          call' = [call EXCEPT !.frames = <<entered>>]
    /\ UNCHANGED ret

\* child.divide(threshold) on a primitive returns at once
DividePrimitive ==
    /\ call.op = "divide"
    /\ ret = Pending
    /\ call.frames # <<>>
    /\ \E f \in {last(call.frames)} :
          /\ f.k <= Len(f.children)
          /\ f.children[f.k].shape.kind # "Group"
          /\ call' = [call EXCEPT !.frames[Len(call.frames)].k = f.k + 1]
    /\ UNCHANGED ret

\* child.divide(threshold) on a group enters Group::divide.  A call on the
\* children some open frame was entered with repeats that frame's call and
\* with it this one, without end, until the stack is used up.
DivideGroup ==
    /\ call.op = "divide"
    /\ ret = Pending
    /\ call.frames # <<>>
    /\ \E f \in {last(call.frames)} :
          /\ f.k <= Len(f.children)
          /\ f.children[f.k].shape.kind = "Group"
          /\ IF \E n \in 1..Len(call.frames) :
                   call.frames[n].self.shape.children = f.children[f.k].shape.children
             THEN /\ ret' = StackOverflow
                  /\ UNCHANGED call
             ELSE /\ \E entered \in {Frame(f.children[f.k], call.threshold)} :
                        call' = [call EXCEPT !.frames = Append(@, entered)]
                  /\ UNCHANGED ret

\* Group::divide returns at the end of its loop; the divided children are
\* those of the group it was called on.
DivideReturn ==
    /\ call.op = "divide"
    /\ ret = Pending
    /\ call.frames # <<>>
    /\ \E f \in {last(call.frames)}, depth \in {Len(call.frames)} :
          /\ f.k > Len(f.children)
          /\ IF depth = 1
             THEN /\ ret' = Returned([f.self EXCEPT !.shape.children = f.children])
                  /\ call' = [call EXCEPT !.frames = <<>>]
             ELSE /\ call' = [call EXCEPT
                        !.frames = [SubSeq(@, 1, depth - 1) EXCEPT
                            ![depth - 1].children[@[depth - 1].k].shape.children = f.children,
                            ![depth - 1].k = @ + 1]]
                  /\ UNCHANGED ret

NextDivide ==
    \/ DivideEnter /\ UNCHANGED <<worldVars, renderVars>>
    \/ DividePrimitive /\ UNCHANGED <<worldVars, renderVars>>
    \/ DivideGroup /\ UNCHANGED <<worldVars, renderVars>>
    \/ DivideReturn /\ UNCHANGED <<worldVars, renderVars>>

SpecDivide == InitDivide /\ [][NextDivide]_vars

\* The primitives below an object, from left to right
RECURSIVE LeafSeq(_)
LeafSeq(object) ==
    IF object.shape.kind = "Group"
    THEN LET below[k \in 0..Len(object.shape.children)] ==
                 IF k = 0 THEN <<>>
                 ELSE below[k - 1] \o LeafSeq(object.shape.children[k])
         IN  below[Len(object.shape.children)]
    ELSE <<object>>

\* What has returned is what Object_divide works out in one piece.
DivideAgrees ==
    (call.op = "divide" /\ "value" \in DOMAIN ret) =>
        ret.value = Object_divide(call.self, call.threshold)

\* C27: divide(threshold) neither loses nor duplicates an object: the
\* primitives below the group are the same after it as before, each as
\* often as before and each with its transform, material and bounds; only
\* the grouping changes.
C27_SameLeaves ==
    (call.op = "divide" /\ "value" \in DOMAIN ret) =>
        \A leaf \in Range(LeafSeq(call.self)) \cup Range(LeafSeq(ret.value)) :
           Count(LeafSeq(ret.value), leaf) = Count(LeafSeq(call.self), leaf)

\* The glass sphere has been moved into a new subgroup.
C27_Witness ==
    /\ call.op = "divide"
    /\ "value" \in DOMAIN ret
    /\ call.self = group_of(<<s1, g4, s3>>)
    /\ call.threshold = 1
    /\ Len(ret.value.shape.children) = 3
    /\ ret.value.shape.children[3].shape.kind = "Group"
    /\ LeafSeq(ret.value) = <<s3, s1, g4>>

\* C28: divide(threshold) terminates for every finite tree of groups and
\* every threshold of at least 1, whatever the boxes of the children, boxes
\* that coincide and boxes of no extent included: no Group::divide is
\* entered on the children a Group::divide that is still open was entered
\* on, and the recursion does not run out of stack.
C28_Terminates == call.op = "divide" => ret # StackOverflow


(***************************************************************************)
(* Triangles: shapes/smooth_triangle.rs, shapes/triangle.rs and the u, v   *)
(* of intersections.rs.  Coordinates are the f64 values of the space       *)
(* layer; a product with f = 1.0 / det is kept as its numerator    *)
(* over the magnitude of the det, so that u, v and t are exact.    *)
(***************************************************************************)
fneg(a) == IF a = NaN THEN NaN ELSE -a
fsub(a, b) == fadd(a, fneg(b))

\* impl Sub for tuples, Vector::dot and the cross product of impl Mul, in f64
Tuple_sub(a, b) == <<fsub(a[1], b[1]), fsub(a[2], b[2]), fsub(a[3], b[3])>>
Vector_dot(a, b) ==
    fadd(fadd(fmul(a[1], b[1]), fmul(a[2], b[2])), fmul(a[3], b[3]))
Vector_cross(a, b) ==
    <<fsub(fmul(a[2], b[3]), fmul(a[3], b[2])),
      fsub(fmul(a[3], b[1]), fmul(a[1], b[3])),
      fsub(fmul(a[1], b[2]), fmul(a[2], b[1]))>>

\* ApproxEq for f64: (self - other).abs() < EPSILON, which between whole
\* numbers is equality and is false for a difference that is not finite
f64_approx_eq(x, other) == finite(fsub(x, other)) /\ fsub(x, other) = 0

\* 1.0 / det for a det that is not 0: a finite one gives
\* its sign over its magnitude, an infinite one 0, NaN gives NaN
recip(det) ==
    IF det = NaN THEN [num |-> NaN, den |-> 1]
    ELSE IF ~finite(det) THEN [num |-> 0, den |-> 1]
    ELSE [num |-> IF det > 0 THEN 1 ELSE -1, den |-> Abs(det)]

\* f * x
times(f, x) == [num |-> fmul(f.num, x), den |-> f.den]

\* u < 0.0, u > 1.0 and u + v of two products with the same f
below_zero(u) == flt(u.num, 0)
above_one(u) == flt(u.den, u.num)
plus(u, v) == [num |-> fadd(u.num, v.num), den |-> u.den]

\* Intersection::new and Intersection::with_uv
Intersection_new(t, object) == [t |-> t, object |-> object, u |-> None, v |-> None]
with_uv(self, u, v) == [self EXCEPT !.u = Some(u), !.v = Some(v)]

SmoothTriangle(a, b, c, n1, n2, n3) ==
    [kind |-> "SmoothTriangle", p1 |-> a, p2 |-> b, p3 |-> c,
     n1 |-> n1, n2 |-> n2, n3 |-> n3]
Triangle(a, b, c) ==
    [kind |-> "Triangle", p1 |-> a, p2 |-> b, p3 |-> c,
     e1 |-> Tuple_sub(b, a), e2 |-> Tuple_sub(c, a)]

e1(self) == Tuple_sub(self.p2, self.p1)
e2(self) == Tuple_sub(self.p3, self.p1)

\* SmoothTriangle::intersects
SmoothTriangle_intersects(self, object, r) ==
    LET dir_cross_e2 == Vector_cross(r.direction, e2(self))
        det == Vector_dot(e1(self), dir_cross_e2)
        f == recip(det)
        p1_to_origin == Tuple_sub(r.origin, self.p1)
        u == times(f, Vector_dot(p1_to_origin, dir_cross_e2))
        origin_cross_e1 == Vector_cross(p1_to_origin, e1(self))
        v == times(f, Vector_dot(r.direction, origin_cross_e1))
        t == times(f, Vector_dot(e2(self), origin_cross_e1))
    IN  IF f64_approx_eq(det, 0) THEN <<>>
        ELSE IF below_zero(u) \/ above_one(u) THEN <<>>
        ELSE IF below_zero(v) \/ above_one(plus(u, v)) THEN <<>>
        ELSE <<with_uv(Intersection_new(t, object), u, v)>>

\* Triangle::intersects, with its stored e1 and e2
Triangle_intersects(self, object, r) ==
    LET dir_cross_e2 == Vector_cross(r.direction, self.e2)
        det == Vector_dot(self.e1, dir_cross_e2)
        f == recip(det)
        p1_to_origin == Tuple_sub(r.origin, self.p1)
        u == times(f, Vector_dot(p1_to_origin, dir_cross_e2))
        origin_cross_e1 == Vector_cross(p1_to_origin, self.e1)
        v == times(f, Vector_dot(r.direction, origin_cross_e1))
        t == times(f, Vector_dot(self.e2, origin_cross_e1))
    IN  IF f64_approx_eq(det, 0) THEN <<>>
        ELSE IF below_zero(u) \/ above_one(u) THEN <<>>
        ELSE IF below_zero(v) \/ above_one(plus(u, v)) THEN <<>>
        ELSE <<Intersection_new(t, object)>>

\* SmoothTriangle::normal_at: hit.u.unwrap() and hit.v.unwrap(), then
\* n2 * u + n3 * v + n1 * (1.0 - u - v), kept over the den of u
SmoothTriangle_normal_at(self, at) ==
    IF at.u = None \/ at.v = None
    THEN Panic
    ELSE LET u == at.u.some
             v == at.v.some
             w == fsub(fsub(u.den, u.num), v.num)
         IN  Returned([num |-> [i \in 1..3 |->
                          fadd(fadd(fmul(self.n2[i], u.num), fmul(self.n3[i], v.num)),
                               fmul(self.n1[i], w))],
                       den |-> u.den])

\* The vertices a triangle is made of: those of the default triangle, two
\* more, and one with the inf that f64's FromStr reads from an OBJ file.
Vertices == {<<0, 1, 0>>, <<-1, 0, 0>>, <<1, 0, 0>>, <<0, -1, 0>>, <<INFINITY, 0, 0>>}
Origins == {<<0, 0, -5>>, <<-1, 0, -5>>, <<0, 1, -5>>, <<0, 2, -5>>, <<0, 0, 5>>}
Directions == {<<0, 0, 1>>, <<0, 1, 0>>, <<0, 0, -1>>, <<1, 0, 1>>}

InitSmooth ==
    /\ \E a, b, c \in Vertices, origin \in Origins, direction \in Directions,
          op \in {"smooth_intersects", "triangle_intersects", "sphere_intersects"} :
          /\ a # b /\ a # c /\ b # c
          /\ call = [op |-> op,
                     self |-> IF op = "smooth_intersects"
                              THEN SmoothTriangle(a, b, c, <<0, 1, 0>>, <<-1, 0, 0>>,
                                                  <<1, 0, 0>>)
                              ELSE Triangle(a, b, c),
                     r |-> Ray(origin, direction),
                     xs |-> None]
    /\ ret = Pending
    /\ WorldIdle /\ RenderIdle

SmoothIntersects ==
    /\ call.op = "smooth_intersects" /\ call.xs = None
    /\ call' = [call EXCEPT !.xs = Some(SmoothTriangle_intersects(call.self, "tri", call.r))]
    /\ UNCHANGED ret

TriangleIntersects ==
    /\ call.op = "triangle_intersects" /\ call.xs = None
    /\ call' = [call EXCEPT !.xs = Some(Triangle_intersects(call.self, "tri", call.r))]
    /\ UNCHANGED ret

\* Sphere::intersects, its two hits made by Intersection::new
SphereIntersects ==
    /\ call.op = "sphere_intersects" /\ call.xs = None
    /\ call' = [call EXCEPT !.xs = Some(
           LET xs == Sphere_intersects_space("sphere", call.r)
           IN  [i \in 1..Len(xs) |-> Intersection_new([num |-> xs[i].t, den |-> 1],
                                                      xs[i].object)])]
    /\ UNCHANGED ret

\* Object::normal_at on the hit of a smooth triangle, as prepare_computations
\* calls it for an intersection of the list
SmoothNormalAt ==
    /\ call.op = "smooth_intersects" /\ call.xs # None /\ ret = Pending
    /\ Len(call.xs.some) > 0
    /\ ret' = SmoothTriangle_normal_at(call.self, call.xs.some[1])
    /\ UNCHANGED call

NextSmooth ==
    \/ SmoothIntersects /\ UNCHANGED <<worldVars, renderVars>>
    \/ TriangleIntersects /\ UNCHANGED <<worldVars, renderVars>>
    \/ SphereIntersects /\ UNCHANGED <<worldVars, renderVars>>
    \/ SmoothNormalAt /\ UNCHANGED <<worldVars, renderVars>>

SpecSmooth == InitSmooth /\ [][NextSmooth]_vars

\* 0 <= u, 0 <= v and u + v <= 1 in f64
Barycentric(i) ==
    /\ i.u # None /\ i.v # None
    /\ fle(0, i.u.some.num) /\ fle(0, i.v.some.num)
    /\ fle(plus(i.u.some, i.v.some).num, i.u.some.den)

\* C25: every intersection SmoothTriangle::intersects returns carries u
\* and v with 0 <= u, 0 <= v and u + v <= 1, every intersection of another
\* shape carries neither, and SmoothTriangle::normal_at does not panic on
\* a hit of the list.
C25_Barycentric ==
    /\ (call.op = "smooth_intersects" /\ call.xs # None) =>
           \A k \in 1..Len(call.xs.some) : Barycentric(call.xs.some[k])
    /\ (call.op \in {"triangle_intersects", "sphere_intersects"} /\ call.xs # None) =>
           \A k \in 1..Len(call.xs.some) :
               call.xs.some[k].u = None /\ call.xs.some[k].v = None
    /\ call.op = "smooth_intersects" => ret # Panic


-----------------------------------------------------------------------------
(* Camera::render against a render on one thread, checked under SpecRender *)

\* The for_each closure of render run for the pixels of the iterator one
\* after the other, on the canvas so far
RECURSIVE sequential(_, _, _, _)
sequential(camera, w, pixels, canvas) ==
    IF pixels = <<>>
    THEN canvas
    ELSE sequential(camera, w, Tail(pixels),
                    write_pixel(canvas, Head(pixels).x, Head(pixels).y,
                                render_color_at(w, ray_for_pixel(camera, Head(pixels).x,
                                                                 Head(pixels).y))))

\* Canvas::pixel_at
pixel_at(canvas, x, y) == canvas.pixels[xy_to_idx(canvas, x, y) + 1]

\* The pixel a worker is busy with, and the pixels no worker is busy with
\* and the iterator no longer holds: those whose closure has run.
Busy == {id \in Workers : workers[id].pc # "idle"}
Taken(id) == [x |-> workers[id].x, y |-> workers[id].y]
Written ==
    {p \in Range(flat_map(call.self)) :
        p \notin Range(cross) /\ \A id \in Busy : Taken(id) # p}

\* C26: under every interleaving of the workers each pixel of the camera
\* is handed to one worker once and written once with the colour of its
\* own ray, a pixel not yet written is as Canvas::new left it, render
\* returns when every pixel is written, and the canvas it returns is the
\* one a render on one thread gives.
C26_Render ==
    call.op = "render" =>
        LET all == flat_map(call.self)
            own(p) == render_color_at(call.w, ray_for_pixel(call.self, p.x, p.y))
        IN  /\ \A p \in Range(all) : p.x < call.self.h_size /\ p.y < call.self.v_size
            /\ \E k \in 1..(Len(all) + 1) : cross = SubSeq(all, k, Len(all))
            /\ \A id \in Busy : Taken(id) \in Range(all) \ Range(cross)
            /\ \A id \in Busy, other \in Busy : id # other => Taken(id) # Taken(other)
            /\ \A id \in Busy : workers[id].pc \in {"lock", "write_pixel"}
                                   => workers[id].color = own(Taken(id))
            /\ \A p \in Range(all) :
                   pixel_at(image_mutex.data, p.x, p.y) =
                       IF p \in Written THEN own(p) ELSE black
            /\ ret # Pending =>
                   /\ Written = Range(all)
                   /\ ret.value = sequential(call.self, call.w, all,
                                             Canvas_new(call.self.h_size,
                                                        call.self.v_size))

\* render has returned the canvas of a camera of MaxSize by MaxSize pixels
\* on a world with a floor: the upper row is black, the lower row is not.
C26_Witness ==
    /\ call.op = "render" /\ ret # Pending
    /\ call.self = Camera(MaxSize, MaxSize)
    /\ pixel_at(ret.value, 0, 0) = black
    /\ pixel_at(ret.value, MaxSize - 1, MaxSize - 1) # black


(***************************************************************************)
(* The REGISTRY of lib.rs under the calls of world.rs.  What is kept of a  *)
(* ray is whether it hits an object and how many intersections the shadow *)
(* ray of its hit has; of the material, the three properties world.rs      *)
(* branches on.  A frame is one open call of the tracing thread, guards is *)
(* the number of read guards that thread holds.  Another thread adds an    *)
(* object, which needs the write lock (Registry::add_object takes          *)
(* &mut self).                                                             *)
(***************************************************************************)
TraceFrame(fn, pc, remaining) == [fn |-> fn, pc |-> pc, k |-> 1, remaining |-> remaining]

Top == call.frames[Len(call.frames)]

\* the current call goes on at pc
Goto(pc) == [call EXCEPT !.frames[Len(call.frames)].pc = pc]

\* the current call goes on at pc when the call it makes now has returned
Invoke(pc, frame) == [Goto(pc) EXCEPT !.frames = Append(@, frame)]

\* the current call returns
Leave(c) == [c EXCEPT !.frames = SubSeq(@, 1, Len(@) - 1)]

\* a read guard goes out of scope
Dropped(c) == [c EXCEPT !.guards = @ - 1]

Tracing(fn) == call.op = "color_at" /\ call.frames # <<>> /\ Top.fn = fn

\* RwLock::read of std: it returns when no thread holds the write lock;
\* whether it waits for a thread that is waiting for the write lock is left
\* to the platform, and does not depend on the guards the caller holds.
ReadLock ==
    /\ call.op = "color_at" /\ call.frames # <<>>
    /\ Top.pc = "read"
    /\ call.writer # "holding"
    /\ call.writer = "waiting" => call.policy = "readers"
    /\ call' = [Goto("locked") EXCEPT !.guards = @ + 1]
    /\ UNCHANGED ret

\* World::color_at
ColorAtLocking ==
    /\ Tracing("color_at")
    /\ call' = CASE Top.pc = "start" ->
                        Invoke("xs", TraceFrame("intersect_world", "read", Top.remaining))
                 [] Top.pc = "xs" /\ call.hit ->
                        Invoke("return", TraceFrame("shade_hit", "next", Top.remaining))
                 [] OTHER -> Leave(call)
    /\ ret' = IF Top.pc \notin {"start", "xs"} \/ (Top.pc = "xs" /\ ~call.hit)
              THEN IF Len(call.frames) = 1 THEN Returned("color") ELSE ret
              ELSE ret

\* World::intersect_world: the guard of line 65 lives to the end of the call
IntersectWorldLocking ==
    /\ Tracing("intersect_world")
    /\ Top.pc = "locked"
    /\ call' = Leave(Dropped(call))
    /\ UNCHANGED ret

\* World::shade_hit: for every light the closure takes the guard of line
\* 78 and holds it over is_shadowed, reflected_color and refracted_color
ShadeHitLocking ==
    /\ Tracing("shade_hit")
    /\ Top.pc # "read"
    /\ call' = CASE Top.pc = "next" /\ Top.k <= call.lights -> Goto("read")
                 [] Top.pc = "next" /\ Top.k > call.lights -> Leave(call)
                 [] Top.pc = "locked" /\ call.receive_shadows ->
                        Invoke("reflected", TraceFrame("is_shadowed", "next", Top.remaining))
                 [] Top.pc = "locked" /\ ~call.receive_shadows -> Goto("reflected")
                 [] Top.pc = "reflected" ->
                        Invoke("refracted", TraceFrame("reflected_color", "read", Top.remaining))
                 [] Top.pc = "refracted" ->
                        Invoke("drop", TraceFrame("refracted_color", "read", Top.remaining))
                 [] Top.pc = "drop" ->
                        Dropped([call EXCEPT !.frames[Len(call.frames)].pc = "next",
                                             !.frames[Len(call.frames)].k = @ + 1])
    /\ UNCHANGED ret

\* World::is_shadowed: for every light intersect_world, then the filter
\* closure with the guard of line 126 for every intersection; k counts the
\* lights and remaining the intersections still to filter
IsShadowedLocking ==
    /\ Tracing("is_shadowed")
    /\ Top.pc # "read"
    /\ call' = CASE Top.pc = "next" /\ Top.k <= call.lights ->
                        [Invoke("filter", TraceFrame("intersect_world", "read", 0))
                            EXCEPT !.frames[Len(call.frames)].remaining = call.shadow_xs]
                 [] Top.pc = "next" /\ Top.k > call.lights -> Leave(call)
                 [] Top.pc = "filter" /\ Top.remaining > 0 -> Goto("read")
                 [] Top.pc = "filter" /\ Top.remaining = 0 /\ call.shadow_xs > 0 -> Leave(call)
                 [] Top.pc = "filter" /\ Top.remaining = 0 /\ call.shadow_xs = 0 ->
                        [call EXCEPT !.frames[Len(call.frames)].pc = "next",
                                     !.frames[Len(call.frames)].k = @ + 1]
                 [] Top.pc = "locked" ->
                        Dropped([call EXCEPT !.frames[Len(call.frames)].pc = "filter",
                                             !.frames[Len(call.frames)].remaining = @ - 1])
    /\ UNCHANGED ret

\* World::reflected_color: the guard of line 143 lives to the end of the
\* call, over color_at
ReflectedColorLocking ==
    /\ Tracing("reflected_color")
    /\ Top.pc # "read"
    /\ call' = CASE Top.pc = "locked" /\ (~call.reflective \/ Top.remaining = 0) ->
                        Leave(Dropped(call))
                 [] Top.pc = "locked" /\ call.reflective /\ Top.remaining > 0 ->
                        Invoke("drop", TraceFrame("color_at", "start", Top.remaining - 1))
                 [] Top.pc = "drop" -> Leave(Dropped(call))
    /\ UNCHANGED ret

\* World::refracted_color: the guard of line 155 lives to the end of the
\* call, over color_at; a ray that is reflected totally returns as a
\* material that is not transparent does
RefractedColorLocking ==
    /\ Tracing("refracted_color")
    /\ Top.pc # "read"
    /\ call' = CASE Top.pc = "locked" /\ (~call.transparent \/ Top.remaining = 0) ->
                        Leave(Dropped(call))
                 [] Top.pc = "locked" /\ call.transparent /\ Top.remaining > 0 ->
                        Invoke("drop", TraceFrame("color_at", "start", Top.remaining - 1))
                 [] Top.pc = "drop" -> Leave(Dropped(call))
    /\ UNCHANGED ret

\* Another thread asks for REGISTRY.write() to add an object, gets it when
\* no guard is held, and is done when it lets it go
WriteRequest ==
    /\ call.op = "color_at" /\ call.writer = "idle"
    /\ call' = [call EXCEPT !.writer = "waiting"]
    /\ UNCHANGED ret

WriteLock ==
    /\ call.op = "color_at" /\ call.writer = "waiting" /\ call.guards = 0
    /\ call' = [call EXCEPT !.writer = "holding"]
    /\ UNCHANGED ret

WriteUnlock ==
    /\ call.op = "color_at" /\ call.writer = "holding"
    /\ call' = [call EXCEPT !.writer = "done"]
    /\ UNCHANGED ret

InitRegistry ==
    /\ \E lights \in 0..MaxLights, remaining \in 0..MaxRemaining, shadow_xs \in 0..1,
          hits, receive_shadows, reflective, transparent \in BOOLEAN,
          policy \in {"readers", "writers"} :
          call = [op |-> "color_at", lights |-> lights, hit |-> hits,
                  shadow_xs |-> shadow_xs, receive_shadows |-> receive_shadows,
                  reflective |-> reflective, transparent |-> transparent,
                  policy |-> policy, writer |-> "idle", guards |-> 0,
                  frames |-> <<TraceFrame("color_at", "start", remaining)>>]
    /\ ret = Pending
    /\ WorldIdle /\ RenderIdle

NextRegistry ==
    \/ ReadLock /\ UNCHANGED <<worldVars, renderVars>>
    \/ ColorAtLocking /\ UNCHANGED <<worldVars, renderVars>>
    \/ IntersectWorldLocking /\ UNCHANGED <<worldVars, renderVars>>
    \/ ShadeHitLocking /\ UNCHANGED <<worldVars, renderVars>>
    \/ IsShadowedLocking /\ UNCHANGED <<worldVars, renderVars>>
    \/ ReflectedColorLocking /\ UNCHANGED <<worldVars, renderVars>>
    \/ RefractedColorLocking /\ UNCHANGED <<worldVars, renderVars>>
    \/ WriteRequest /\ UNCHANGED <<worldVars, renderVars>>
    \/ WriteLock /\ UNCHANGED <<worldVars, renderVars>>
    \/ WriteUnlock /\ UNCHANGED <<worldVars, renderVars>>

SpecRegistry == InitRegistry /\ [][NextRegistry]_vars

\* The tracing thread waits in read() with a guard of its own in hand for a
\* writer that waits for that guard.
ReadBlocked ==
    /\ Top.pc = "read" /\ call.guards > 0
    /\ call.writer = "waiting" /\ call.policy = "writers"

\* C29: while it traces a ray a thread asks for the REGISTRY lock only when
\* it holds no read guard of the REGISTRY, so that it never waits for ever
\* behind a thread that waits for the write lock.
C29_NoGuardHeld ==
    (call.op = "color_at" /\ call.frames # <<>>) =>
        /\ Top.pc = "read" => call.guards = 0
        /\ ~ReadBlocked

=============================================================================
